---- MODULE Spec2Model ----
(***************************************************************************)
(* exocaster: the concurrent ring buffer (src/src/buffer.hh) and the PCM   *)
(* buffer built on it (src/src/pcmbuffer.cc), with the encoder driver loop *)
(* that consumes it (src/src/encoder/encoder.cc).                          *)
(* The same ring carries encoded packets (src/src/packet.hh) and the jobs  *)
(* of the job queue (src/src/jobqueue.hh).                                 *)
(*                                                                         *)
(* A critical section of RingBuffer (everything between taking mutex_ and  *)
(* releasing it, or parking on a condition variable) is one atomic step;   *)
(* the notifications done after unlock are steps of their own.  A thread   *)
(* parked on a condition variable is a member of that variable's waiter    *)
(* set and cannot step until a notify removes it.                          *)
(***************************************************************************)
EXTENDS Integers, Sequences, FiniteSets, TLC

\* ------------------------------------------------------------ bounds
RingSize == 2      \* capacity N of the ring checked on its own
PcmBufferSize == 3 \* capacity in bytes of a PcmBuffer's ring pcm_
BytesPerFrame == 2 \* pcmFormat_.bytesPerFrame()
EncoderBuffer == 2 \* bytes in the encoder driver's read buffer
SongChanges == 3   \* rows of PcmBuffer::songChanges_
Tracks == 2        \* distinct metadata the decoder's tracks cycle through
MaxFrames == 1     \* frames in the largest block a decoder writes at once
PacketBufferSize == 3 \* capacity in bytes of a packet ring buffer
HeaderSize == 3    \* sizeof(PacketHeader): one ring element for each field
MaxPayload == 2    \* bytes in the largest packet written
Packets == 2       \* packets are numbered cyclically, 0 .. Packets - 1
DirectCount == 3   \* bytes the largest readDirectFull asks for
JobQueueSize == 2  \* capacity of JobQueue::jobs_
DriverTracks == 2  \* tracks the encoder driver is followed through
TrackPackets == 3  \* packets of one track that are followed
Commands == 3      \* commands the decoder jobs announce tracks for
EventBufferSize == 2 \* capacity of PublishQueue::events_
Events == 4        \* events pushed to the publish queue
TokenBits == 3     \* width in bits of a barrier token (std::size_t)
Rounds == 9        \* track changes the encoders synchronise on
SinkSize == 2      \* packets a broca's packet ring holds
SinkPackets == 4   \* packets the encoder of the brocas emits
ReaderCommands == 4 \* commands the command reader is given
BrocaBuffer == 1    \* bytes in the buffer of ShoutBroca::runImpl
OpenFailures == 8   \* failed opens in a row
SendFailures == 1   \* sends that fail after all their tries
MaxOpenTime == 60   \* the limit of openTime in ShoutBroca::runImpl

Threads == {"w", "r", "c"}   \* writer, reader, and the thread that closes

Min(a, b) == IF a < b THEN a ELSE b

VARIABLES
    size_,        \* RingBuffer::size_
    buffer_,      \* RingBuffer::buffer_, size_ + 1 slots
    head_,        \* RingBuffer::head_
    tail_,        \* RingBuffer::tail_
    closed_,      \* RingBuffer::closed_
    waitToRead_,  \* threads parked on RingBuffer::waitToRead_
    waitToWrite_, \* threads parked on RingBuffer::waitToWrite_
    pc,           \* per thread: position inside the ring operation it runs
    call,         \* per thread: arguments and locals of that operation
    nextVal,      \* the value of the next element the writer's stream offers
    pending,      \* history: the elements copied into buffer_ and not yet
                  \* moved out of it, oldest first
    workload,     \* which side of the ring the run exercises
    pcmLeft_,     \* PcmBuffer::pcmLeft_
    songChanges_, \* PcmBuffer::songChanges_
    songHead_,    \* PcmBuffer::songHead_
    songTail_,    \* PcmBuffer::songTail_
    pcmClosed_,   \* PcmBuffer::closed_ (closed_ above is that of pcm_)
    skip_,        \* PcmBuffer::skip_
    mutex_,       \* holder of PcmBuffer::mutex_ across steps, or "none"
    hasPcm_,      \* threads parked on PcmBuffer::hasPcm_
    outer,        \* per thread: the PcmBuffer-level call it is inside
    nextMeta,     \* the metadata the decoder's next track carries
    shouldRun,    \* exo::shouldRun()
    metaLog,      \* history of the rows written and read (see NoLog)
    enc,          \* the encoder driver's track state (see NoEnc)
    wr,           \* the packet writePacket is writing (see NoPacket)
    cache,        \* the reader's PacketRead cursor (see NoCursor)
    taken,        \* history: the elements the reader's ring call in progress
                  \* has moved out of buffer_
    expect,       \* history: the packet whose header comes next in the stream
    waitingJob_,  \* holder of JobQueue::waitingJob_, or "none"
    initJob_,     \* holder of JobQueue::initJob_, or "none"
    runningJob_,  \* holder of JobQueue::runningJob_, or "none"
    job,          \* per worker: the job it has taken from jobs_ (-1: none)
    jobLog,       \* history: how many init() and run() calls have begun and
                  \* how many run() calls have returned (see NoJobs)
    drv,          \* the encoder driver seen from its plugin (see NoDriver)
    sent,         \* history: the flags of the packets handed to the sinks
                  \* for the track in progress, oldest first
    bufs,         \* per PcmBuffer of the splitter: its metadata queue
    dec,          \* the decoder job inside PcmSplitter::metadata (see NoDec)
    acks,         \* history: the events handed to Publisher::push_, oldest
                  \* first
    event,        \* PublishQueue::run: the event get() returned (-1: none)
    delivered,    \* history: the events written to the write queue, oldest
                  \* first
    listeners_,   \* Barrier::listeners_
    queued_,      \* Barrier::queued_
    visited_,     \* Barrier::visited_
    token_,       \* Barrier::token_
    barrier_,     \* threads parked on Barrier::barrier_
    syn,          \* per encoder: where it is in Barrier::sync (see NoSync)
    freed,        \* history: Barrier::free has been called, and the state
                  \* of its callers then (see NotFreed)
    broca,        \* per broca: where its thread is in BaseBroca::run
    sink,         \* per broca: its PacketRingBuffer, in whole packets
    brocaCounter, \* exo::brocaCounter, the tokens in the semaphore
    acquired,     \* history: how many tokens the server has acquired
    emit,         \* the encoder of the brocas: where it is in packet()
    alive,        \* the process has not been terminated
    srv,          \* the server's main thread and its helpers
    shout,        \* the ShoutBroca thread: where it is in runImpl, openTime
    commands      \* the command reader, the jobs it has added, the events
                  \* published for its commands

ringVars == <<size_, buffer_, head_, tail_, closed_, waitToRead_, waitToWrite_>>
histVars == <<nextVal, pending, workload>>
pcmVars == <<pcmLeft_, songChanges_, songHead_, songTail_, pcmClosed_, skip_,
             mutex_, hasPcm_, outer, nextMeta, shouldRun, metaLog, enc>>
pktVars == <<wr, cache, taken, expect>>
\* What neither a RingBuffer operation nor the PcmBuffer touches.
jobVars == <<waitingJob_, initJob_, runningJob_, job, jobLog>>
drvVars == <<drv, sent>>
ackVars == <<bufs, dec, acks>>
pubVars == <<event, delivered>>
brVars == <<broca, sink, brocaCounter, acquired, emit, alive>>
srvVars == <<srv>>
lateVars == <<shout, commands>>
tailVars == <<brVars, srvVars, lateVars>>
barVars == <<listeners_, queued_, visited_, token_, barrier_, syn, freed>>
restVars == <<drvVars, ackVars, pubVars, barVars, tailVars>>
elseVars == <<pktVars, jobVars, restVars>>
vars == <<size_, buffer_, head_, tail_, closed_, waitToRead_, waitToWrite_,
          pc, call, nextVal, pending, workload,
          pcmLeft_, songChanges_, songHead_, songTail_, pcmClosed_, skip_,
          mutex_, hasPcm_, outer, nextMeta, shouldRun, metaLog, enc,
          wr, cache, taken, expect,
          waitingJob_, initJob_, runningJob_, job, jobLog, restVars>>

\* ------------------------------------------------------------ RingBuffer helpers
BufLen == size_ + 1                      \* buffer_.size()

canRead_ == head_ # tail_

lockedToRead_Wrong == head_ - tail_
lockedToRead_ ==
    IF head_ < tail_ THEN head_ - tail_ + BufLen ELSE head_ - tail_

canWrite_ == (head_ + 1) % BufLen # tail_

lockedToWrite_OffByOne == BufLen - lockedToRead_
lockedToWrite_ == size_ - lockedToRead_

\* The slots i, i+1, ... (k of them) of buffer_, no wrap.
Slots(i, k) == [j \in 1..k |-> buffer_[i + j - 1]]

\* lockedMoveFromBuffer_ and lockedSkipFromBuffer_: the elements taken and the
\* new tail_.
lockedMoveFromBuffer_NoWrap(count) ==
    LET totalRead == Min(count, lockedToRead_)
    IN  [n |-> totalRead, vals |-> Slots(tail_, Min(totalRead, BufLen - tail_)),
         tail |-> (tail_ + totalRead) % BufLen]
lockedMoveFromBuffer_(count) ==
    LET totalRead == Min(count, lockedToRead_)
        sliver == BufLen - tail_
    IN  IF totalRead = 0 THEN [n |-> 0, vals |-> <<>>, tail |-> tail_]
        ELSE IF totalRead <= sliver
        THEN [n |-> totalRead, vals |-> Slots(tail_, totalRead),
              tail |-> IF totalRead = sliver THEN 0 ELSE tail_ + totalRead]
        ELSE [n |-> totalRead,
              vals |-> Slots(tail_, sliver) \o Slots(0, totalRead - sliver),
              tail |-> totalRead - sliver]

\* lockedXferToBuffer_: the new buffer_ and head_, and what is left of src.
lockedXferToBuffer_NoWrap(src, count) ==
    LET totalWrite == Min(count, lockedToWrite_)
    IN  [n |-> totalWrite,
         buf |-> [i \in 0..size_ |->
                    IF i >= head_ /\ i < head_ + totalWrite
                    THEN src[i - head_ + 1] ELSE buffer_[i]],
         head |-> (head_ + totalWrite) % BufLen,
         src |-> SubSeq(src, totalWrite + 1, Len(src))]
lockedXferToBuffer_(src, count) ==
    LET totalWrite == Min(count, lockedToWrite_)
        sliver == BufLen - head_
    IN  IF totalWrite = 0
        THEN [n |-> 0, buf |-> buffer_, head |-> head_, src |-> src]
        ELSE IF totalWrite <= sliver
        THEN [n |-> totalWrite,
              buf |-> [i \in 0..size_ |->
                         IF i >= head_ /\ i < head_ + totalWrite
                         THEN src[i - head_ + 1] ELSE buffer_[i]],
              head |-> IF totalWrite = sliver THEN 0 ELSE head_ + totalWrite,
              src |-> SubSeq(src, totalWrite + 1, Len(src))]
        ELSE [n |-> totalWrite,
              buf |-> [i \in 0..size_ |->
                         IF i >= head_ THEN src[i - head_ + 1]
                         ELSE IF i < totalWrite - sliver THEN src[sliver + i + 1]
                         ELSE buffer_[i]],
              head |-> totalWrite - sliver,
              src |-> SubSeq(src, totalWrite + 1, Len(src))]

\* notify_one on a condition variable: one waiter (any one) leaves the set.
NotifyOne(waiters) ==
    IF waiters = {} THEN {waiters} ELSE {waiters \ {u} : u \in waiters}

\* The elements in the ring, oldest first.
Contents ==
    [k \in 1..lockedToRead_ |-> buffer_[(tail_ + k - 1) % BufLen]]

\* ------------------------------------------------------------ calls
\* The locals of a call: op, count (what is left to do), orig (originalCount),
\* n, lockWait, expired (the deadline `until` has passed) and ret (the value
\* returned).  Two fields are history: past (the deadline had passed when the
\* call was made) and fifo (every element the call has delivered to its caller
\* was, when delivered, the oldest pending one).
NoCall ==
    [op |-> "none", count |-> 0, orig |-> 0, n |-> 0,
     lockWait |-> FALSE, expired |-> FALSE, ret |-> 0,
     past |-> FALSE, fifo |-> TRUE]

Goto(t, l) == pc' = [pc EXCEPT ![t] = l]

\* The call returns v; its locals die.
Return(t, v) ==
    /\ pc' = [pc EXCEPT ![t] = "ret"]
    /\ call' = [call EXCEPT ![t] =
                   [call[t] EXCEPT !.ret = v, !.n = 0, !.count = 0,
                                            !.orig = IF call[t].op = "writeFull"
                                                     THEN 0 ELSE @,
                                            !.lockWait = FALSE,
                                            !.expired = FALSE]]

\* ------------------------------------------------------------ packets
\* PacketFlags::OutOfBandMetadata
OutOfBandMetadata == 2

\* A byte of a packet ring buffer.  pkt, history, is the number of the packet
\* the byte was written for; f tells which field of the PacketHeader the byte
\* holds (1 dataSize, 2 frameCount, 3 flags), 0 for a byte of payload; v is
\* the value: the field's, or for the j-th byte of payload j in a packet of
\* audio data and -j in one of out-of-band metadata.
NoElem == [pkt |-> -1, f |-> 0, v |-> 0]

\* The arguments of writePacket; a packet's frameCount is its number.
NoPacket == [id |-> Packets - 1, dataSize |-> 0, flags |-> 0]

\* writeHeader's memcpy of the header into headerBytes
HeaderElems(p) ==
    <<[pkt |-> p.id, f |-> 1, v |-> p.dataSize],
      [pkt |-> p.id, f |-> 2, v |-> p.id],
      [pkt |-> p.id, f |-> 3, v |-> p.flags]>>

PayloadElems(p) ==
    [j \in 1..p.dataSize |->
        [pkt |-> p.id, f |-> 0, v |-> IF p.flags = 0 THEN j ELSE -j]]

\* readHeader's memcpy of headerBytes into the header: each field takes the
\* value of the byte at its place, whatever that byte was written as (the
\* fields are unsigned).
Unsigned(v) == IF v < 0 THEN -v ELSE v
ParseHeader(bytes) ==
    [dataSize |-> Unsigned(bytes[1].v),
     frameCount |-> Unsigned(bytes[2].v),
     flags |-> Unsigned(bytes[3].v)]

\* PacketRead: left_ and header; PacketRead() has left_ 0 and a zero header.
NoCursor ==
    [left |-> 0, header |-> [dataSize |-> 0, frameCount |-> 0, flags |-> 0]]

\* No packet ring buffer is in use.
NoPackets ==
    /\ wr = NoPacket
    /\ cache = NoCursor
    /\ taken = <<>>
    /\ expect = 0

\* ------------------------------------------------------------ jobs
\* The threads that run JobQueue::runJobs (JOB_WORKER_COUNT of them).
Workers == {"r", "c"}

\* Nobody holds a mutex of the job queue, no worker has a job, and no job has
\* been started.  The counts of jobLog are kept modulo Period.
NoJobs ==
    /\ waitingJob_ = "none"
    /\ initJob_ = "none"
    /\ runningJob_ = "none"
    /\ job = [t \in Workers |-> -1]
    /\ jobLog = [inits |-> 0, runs |-> 0, dones |-> 0]

\* ------------------------------------------------------------ the rest
\* The encoder driver between calls of its plugin: pc is where BaseEncoder::run
\* stands, track its local variable, startOfTrack_ the member; next is where
\* run goes on after the endTrack in progress, and tracks, history, counts the
\* startTrack calls.
NoDriver ==
    [pc |-> "run", track |-> FALSE, startOfTrack_ |-> FALSE, next |-> "none",
     tracks |-> 0]

\* No encoder driver is followed packet by packet.
NoDrivers ==
    /\ drv = [NoDriver EXCEPT !.pc = "none"]
    /\ sent = <<>>

\* The PcmBuffers of the splitter, by subindex_.
Buffers == {0, 1}

\* A PcmBuffer as far as track changes go.  A row of songChanges_ here keeps
\* its command apart from its metadata (TRUE: a Metadata, FALSE: nullptr);
\* command -1 is the null pointer.
NoBufRow == [command |-> -1, metadata |-> FALSE, pcmBytes |-> 0]
NoBuf ==
    [songChanges_ |-> [k \in 0..(SongChanges - 1) |-> NoBufRow],
     songHead_ |-> 0, songTail_ |-> 0, pcmLeft_ |-> 0, closed_ |-> FALSE]

\* The decoder job: next is the command of the next track, command that of
\* the metadata() call in progress and i the buffer that call has come to.
NoDec == [pc |-> "idle", next |-> 0, command |-> -1, i |-> 0]

NoAcks ==
    /\ bufs = [i \in Buffers |-> NoBuf]
    /\ dec = [NoDec EXCEPT !.pc = "none"]
    /\ acks = <<>>

\* No publish queue is in use.
NoPublisher ==
    /\ event = -1
    /\ delivered = <<>>

\* The brocas of one encoder, in the order of its sinks_.
Brocas == <<"x", "y">>

\* A PacketRingBuffer nobody has written to.
NoSink == [fill |-> 0, closed_ |-> FALSE]

\* A broca whose thread has not been started.  exit is how runImpl ended,
\* and two fields are history: got counts the packets written to the file,
\* released the tokens released on brocaCounter.
NoBroca == [pc |-> "none", exit |-> "none", got |-> 0, released |-> 0]

\* An encoder outside packet(); n counts the packets it has emitted.
NoEmit == [pc |-> "idle", i |-> 1, n |-> 0]

NoBrocas ==
    /\ broca = [b \in {Brocas[i] : i \in 1..Len(Brocas)} |-> NoBroca]
    /\ sink = [b \in {Brocas[i] : i \in 1..Len(Brocas)} |-> NoSink]
    /\ brocaCounter = 0
    /\ acquired = 0
    /\ emit = NoEmit
    /\ alive = TRUE

\* A server that is not running.
NoSrv == [pc |-> "none"]

NoServer == srv = NoSrv

\* No ShoutBroca is running, and no command reader.
NoLate ==
    /\ shout = [pc |-> "none"]
    /\ commands = [pc |-> "none"]

NoTail == NoBrocas /\ NoServer /\ NoLate

\* The encoders that hold a BarrierHolder of the barrier.
Listeners == {"a", "b", "c"}

\* An encoder outside sync.  token is the argument of its call; two fields
\* are history: round numbers the track changes (the token of round k is k
\* modulo 2^TokenBits), and returned is the round of the last call that
\* has returned.
NoSync == [pc |-> "idle", token |-> 0, round |-> 0, returned |-> 0]

\* Barrier::free has not been called.  When it is, blocked is the set of
\* encoders parked in sync.
NotFreed == [called |-> FALSE, blocked |-> {}]

\* A Barrier as constructed, with no holder.
NoBarrier ==
    /\ listeners_ = 0
    /\ queued_ = 0
    /\ visited_ = 0
    /\ token_ = 0
    /\ barrier_ = {}
    /\ syn = [a \in Listeners |-> [NoSync EXCEPT !.pc = "none"]]
    /\ freed = NotFreed

NoRest ==
    /\ NoDrivers
    /\ NoAcks
    /\ NoPublisher
    /\ NoTail
    /\ NoBarrier

\* What the ring call of writePacket in progress writes: the header first
\* (outer.pos 1), the payload after.
Source == IF outer["w"].pos = 1 THEN HeaderElems(wr) ELSE PayloadElems(wr)

\* The writer's data is a stream of the values 0, 1, 2, ... taken cyclically
\* (more values than slots); a call offers the next `count` elements of the
\* stream, and what a call does not admit is offered again by the next one.
\* Under workload "pcm" the stream is silence, every byte 0; under workload
\* "packet" a call offers what is left of the header or payload it writes.
\* Under workload "publish" the values are the events pushed, numbered from 0
\* and never repeated.
Period ==
    IF workload \in {"pcm", "packet", "direct"} THEN 1
    ELSE IF workload = "publish" THEN Events + 1
    ELSE size_ + 2
Fresh(count) ==
    IF workload \in {"packet", "direct"}
    THEN SubSeq(Source, Len(Source) - count + 1, Len(Source))
    ELSE [i \in 1..count |-> (nextVal + i - 1) % Period]

\* ------------------------------------------------------------ RingBuffer reads
\* One critical section of a blocking read: the wait on waitToRead_ (predicate
\* canRead_() || closed_), the break on closed-and-empty, and the move of up to
\* `count` elements; keep tells whether the elements reach dst (they do not in
\* skipFull).
ReadSection(t, keep, breakRet, after) ==
    IF ~(canRead_ \/ closed_)
    THEN /\ waitToRead_' = waitToRead_ \cup {t}
         /\ UNCHANGED <<size_, buffer_, head_, tail_, closed_, waitToWrite_,
                        pc, call, histVars>>
    ELSE IF closed_ /\ ~canRead_
    THEN /\ Return(t, breakRet)
         /\ UNCHANGED <<ringVars, histVars>>
    ELSE LET m == lockedMoveFromBuffer_(call[t].count)
         IN  /\ tail_' = m.tail
             /\ pending' = SubSeq(pending, m.n + 1, Len(pending))
             /\ call' = [call EXCEPT ![t] =
                            [call[t] EXCEPT
                               !.n = IF call[t].op = "readSome" THEN m.n ELSE 0,
                               !.count = @ - m.n,
                               !.fifo = @ /\ (keep =>
                                          m.vals = SubSeq(pending, 1, m.n))]]
             /\ Goto(t, after)
             /\ UNCHANGED <<size_, buffer_, head_, closed_, waitToRead_,
                            waitToWrite_, nextVal, workload>>

\* didRead_: notify_one on waitToWrite_, after the unlock.
didRead_(t, from, to) ==
    /\ pc[t] = from
    /\ waitToWrite_' \in NotifyOne(waitToWrite_)
    /\ Goto(t, to)
    /\ UNCHANGED <<size_, buffer_, head_, tail_, closed_, waitToRead_, call,
                   histVars>>

\* didWrite_: notify_one on waitToRead_, after the unlock.
didWrite_(t, from, to) ==
    /\ pc[t] = from
    /\ waitToRead_' \in NotifyOne(waitToRead_)
    /\ Goto(t, to)
    /\ UNCHANGED <<size_, buffer_, head_, tail_, closed_, waitToWrite_, call,
                   histVars>>

readPartial(t) ==
    /\ pc[t] = "readPartial"
    /\ LET m == lockedMoveFromBuffer_(call[t].count)
       IN  /\ tail_' = m.tail
           /\ pending' = SubSeq(pending, m.n + 1, Len(pending))
           /\ pc' = [pc EXCEPT ![t] = "ret"]
           /\ call' = [call EXCEPT ![t] =
                          [call[t] EXCEPT
                             !.count = 0, !.ret = m.n,
                             !.fifo = (m.vals = SubSeq(pending, 1, m.n))]]
    /\ UNCHANGED <<size_, buffer_, head_, closed_, waitToRead_, waitToWrite_,
                   nextVal, workload>>

readSome(t) ==
    \/ /\ pc[t] = "readSome"
       /\ t \notin waitToRead_
       /\ IF call[t].n # 0
          THEN /\ Return(t, call[t].n)
               /\ UNCHANGED <<ringVars, histVars>>
          ELSE ReadSection(t, TRUE, call[t].n, "readSome_didRead")
    \/ didRead_(t, "readSome_didRead", "readSome")

readFull(t) ==
    \/ /\ pc[t] = "readFull"
       /\ t \notin waitToRead_
       /\ IF call[t].count = 0
          THEN /\ Return(t, call[t].orig - call[t].count)
               /\ UNCHANGED <<ringVars, histVars>>
          ELSE ReadSection(t, TRUE, call[t].orig - call[t].count,
                           "readFull_didRead")
    \/ didRead_(t, "readFull_didRead", "readFull")

skipFull(t) ==
    \/ /\ pc[t] = "skipFull"
       /\ t \notin waitToRead_
       /\ IF call[t].count = 0
          THEN /\ Return(t, call[t].orig - call[t].count)
               /\ UNCHANGED <<ringVars, histVars>>
          ELSE ReadSection(t, FALSE, call[t].orig - call[t].count,
                           "skipFull_didRead")
    \/ didRead_(t, "skipFull_didRead", "skipFull")

\* get(): ret 1 for a value, ret 0 for the empty optional.
get(t) ==
    \/ /\ pc[t] = "get"
       /\ t \notin waitToRead_
       /\ IF ~(canRead_ \/ closed_)
          THEN /\ waitToRead_' = waitToRead_ \cup {t}
               /\ UNCHANGED <<size_, buffer_, head_, tail_, closed_,
                              waitToWrite_, pc, call, histVars>>
          ELSE IF closed_ /\ ~canRead_
          THEN /\ Return(t, 0)
               /\ UNCHANGED <<ringVars, histVars>>
          ELSE /\ tail_' = (tail_ + 1) % BufLen
               /\ pending' = Tail(pending)
               /\ call' = [call EXCEPT ![t] =
                              [call[t] EXCEPT
                                 !.count = 0, !.ret = 1,
                                 !.fifo = (buffer_[tail_] = Head(pending))]]
               /\ Goto(t, "get_didRead")
               /\ UNCHANGED <<size_, buffer_, head_, closed_, waitToRead_,
                              waitToWrite_, nextVal, workload>>
    \/ didRead_(t, "get_didRead", "ret")

\* ------------------------------------------------------------ RingBuffer writes
\* The copy of up to `count` elements of the stream into the ring, under the lock.
XferSection(t, after) ==
    LET x == lockedXferToBuffer_(Fresh(call[t].count), call[t].count)
    IN  /\ buffer_' = x.buf
        /\ head_' = x.head
        /\ pending' = pending \o SubSeq(Fresh(call[t].count), 1, x.n)
        /\ nextVal' = (nextVal + x.n) % Period
        /\ call' = [call EXCEPT ![t] =
                       [call[t] EXCEPT
                          !.count = @ - x.n,
                          !.lockWait = (call[t].op = "writeTimed")]]
        /\ Goto(t, after)
        /\ UNCHANGED <<size_, tail_, closed_, waitToRead_, waitToWrite_,
                       workload>>

\* What writePartial returns for n elements written.
WritePartialResult(n) == IF n > 0 THEN 1 ELSE 0

\* writePartial (and putNoWait, which is writePartial of one element): no wait
\* and no look at closed_; didWrite_ only if something was written.
writePartial(t) ==
    \/ /\ pc[t] = "writePartial"
       /\ LET x == lockedXferToBuffer_(Fresh(call[t].count), call[t].count)
          IN  /\ buffer_' = x.buf
              /\ head_' = x.head
              /\ pending' = pending \o SubSeq(Fresh(call[t].count), 1, x.n)
              /\ nextVal' = (nextVal + x.n) % Period
              /\ call' = [call EXCEPT ![t] =
                             [call[t] EXCEPT
                                !.count = 0,
                                !.ret = WritePartialResult(x.n)]]
              /\ Goto(t, IF x.n # 0 THEN "writePartial_didWrite" ELSE "ret")
       /\ UNCHANGED <<size_, tail_, closed_, waitToRead_, waitToWrite_,
                      workload>>
    \/ didWrite_(t, "writePartial_didWrite", "ret")

\* writeFull returns nothing: ret stays 0.
writeFull(t) ==
    \/ /\ pc[t] = "writeFull"
       /\ t \notin waitToWrite_
       /\ IF call[t].count = 0
          THEN /\ Return(t, 0)
               /\ UNCHANGED <<ringVars, histVars>>
          ELSE IF ~(canWrite_ \/ closed_)
          THEN /\ waitToWrite_' = waitToWrite_ \cup {t}
               /\ UNCHANGED <<size_, buffer_, head_, tail_, closed_,
                              waitToRead_, pc, call, histVars>>
          ELSE IF closed_
          THEN /\ Return(t, 0)
               /\ UNCHANGED <<ringVars, histVars>>
          ELSE XferSection(t, "writeFull_didWrite")
    \/ didWrite_(t, "writeFull_didWrite", "writeFull")

\* wait_until(lock, until, pred) finds the deadline passed: it returns pred()
\* instead of parking.
WaitUntilTimesOut_Never(t) == FALSE
WaitUntilTimesOut(t) == call[t].expired

\* writeTimed, with the wait_until predicate canWrite_() || closed_ evaluated
\* under the lock: true goes on to the closed_ test and the copy; false parks
\* the thread, or, with the deadline passed, leaves through the timeout.
TimedSection(t) ==
    IF canWrite_ \/ closed_
    THEN IF closed_
         THEN /\ Return(t, call[t].orig - call[t].count)
              /\ UNCHANGED <<ringVars, histVars>>
         ELSE XferSection(t, "writeTimed_didWrite")
    ELSE IF WaitUntilTimesOut(t)
    THEN /\ Goto(t, "writeTimed_timeout")
         /\ UNCHANGED <<ringVars, call, histVars>>
    ELSE /\ waitToWrite_' = waitToWrite_ \cup {t}
         /\ Goto(t, "writeTimed_wait")
         /\ UNCHANGED <<size_, buffer_, head_, tail_, closed_, waitToRead_,
                        call, histVars>>

writeTimed(t) ==
    \* while (count > 0): lock() the first time, try_lock_until(until) after;
    \* try_lock_until with the deadline passed is try_lock, which may fail.
    \/ /\ pc[t] = "writeTimed"
       /\ IF call[t].count = 0
          THEN /\ Return(t, call[t].orig - call[t].count)
               /\ UNCHANGED <<ringVars, histVars>>
          ELSE \/ /\ call[t].lockWait /\ call[t].expired
                  /\ Return(t, call[t].orig - call[t].count)
                  /\ UNCHANGED <<ringVars, histVars>>
               \/ TimedSection(t)
    \* notified while parked: the predicate is evaluated again
    \/ /\ pc[t] = "writeTimed_wait"
       /\ t \notin waitToWrite_
       /\ TimedSection(t)
    \* the deadline passes while parked
    \/ /\ pc[t] = "writeTimed_wait"
       /\ t \in waitToWrite_
       /\ call[t].expired
       /\ waitToWrite_' = waitToWrite_ \ {t}
       /\ Goto(t, "writeTimed_timeout")
       /\ UNCHANGED <<size_, buffer_, head_, tail_, closed_, waitToRead_, call,
                      histVars>>
    \* timed out: wait_until returns pred(), evaluated under the lock again
    \/ /\ pc[t] = "writeTimed_timeout"
       /\ IF ~(canWrite_ \/ closed_) \/ closed_
          THEN /\ Return(t, call[t].orig - call[t].count)
               /\ UNCHANGED <<ringVars, histVars>>
          ELSE XferSection(t, "writeTimed_didWrite")
    \/ didWrite_(t, "writeTimed_didWrite", "writeTimed")

\* The deadline of a running writeTimed passes.
Tick(t) ==
    /\ call[t].op = "writeTimed"
    /\ pc[t] \in {"writeTimed", "writeTimed_wait", "writeTimed_didWrite"}
    /\ ~call[t].expired
    /\ call' = [call EXCEPT ![t].expired = TRUE]
    /\ UNCHANGED <<ringVars, pc, histVars>>

\* ------------------------------------------------------------ RingBuffer close
close_WritersOnly(t) ==
    \/ /\ pc[t] = "close"
       /\ closed_' = TRUE
       /\ Goto(t, "close_notify")
       /\ UNCHANGED <<size_, buffer_, head_, tail_, waitToRead_, waitToWrite_,
                      call, histVars>>
    \/ /\ pc[t] = "close_notify"
       /\ waitToWrite_' = {}
       /\ Goto(t, "ret")
       /\ UNCHANGED <<size_, buffer_, head_, tail_, closed_, waitToRead_, call,
                      histVars>>
close(t) ==
    \/ /\ pc[t] = "close"
       /\ closed_' = TRUE
       /\ Goto(t, "close_notify")
       /\ UNCHANGED <<size_, buffer_, head_, tail_, waitToRead_, waitToWrite_,
                      call, histVars>>
    \/ /\ pc[t] = "close_notify"
       /\ waitToWrite_' = {}
       /\ waitToRead_' = {}
       /\ Goto(t, "ret")
       /\ UNCHANGED <<size_, buffer_, head_, tail_, closed_, call, histVars>>

\* closedToWrites(): ret 1 for true.
closedToWrites(t) ==
    /\ pc[t] = "closedToWrites"
    /\ Return(t, IF closed_ THEN 1 ELSE 0)
    /\ UNCHANGED <<ringVars, histVars>>

\* ------------------------------------------------------------ PcmBuffer
\* A PcmBuffer-level call: op, data.size() (size), a byte count local to the
\* call (n: written in writePcm, canRead in readPcm and its result in the
\* encoder driver), the metadata carried or returned (meta; -1 is nullptr),
\* and pos, history: the pos of the row that readMetadata returned.
NoOuter == [op |-> "none", size |-> 0, n |-> 0, meta |-> -1, pos |-> 0]

\* A row of songChanges_.  The command travels with the metadata and is not
\* modelled apart from it.  pos is history: pcm_'s head_ when the decoder
\* queued the row, the place in pcm_ where the row's track begins.
NoRow == [metadata |-> -1, pcmBytes |-> 0, pos |-> 0]

\* History of the metadata rows: stored, the metadata of the rows written into
\* songChanges_ and not yet returned by readMetadata, oldest first; last, the
\* entry of stored that readMetadata took off it for the event the driver is
\* about to handle; drained, whether the writeMetadata call in progress began
\* on an open buffer whose consumer had read every earlier row.
NoLog == [stored |-> <<>>, last |-> -1, drained |-> FALSE]

\* The encoder driver: track is the local variable of BaseEncoder::run,
\* sinksClosed whether BaseEncoder::close has closed the packet buffers.  Two
\* fields are history: open (the plugin has had startTrack and not yet
\* endTrack) and ok (no startTrack came while open, no endTrack while not).
NoEnc == [track |-> FALSE, sinksClosed |-> FALSE, open |-> FALSE, ok |-> TRUE]

InitPcmBuffer ==
    /\ pcmLeft_ = 0
    /\ songChanges_ = [i \in 0..(SongChanges - 1) |-> NoRow]
    /\ songHead_ = 0
    /\ songTail_ = 0
    /\ pcmClosed_ = FALSE
    /\ mutex_ = "none"
    /\ hasPcm_ = {}
    /\ metaLog = NoLog
    /\ enc = NoEnc

rowVars == <<songChanges_, songHead_, songTail_>>

metadataFull_Never == FALSE
metadataFull_ == (songHead_ + 1) % SongChanges = songTail_

\* A PcmBuffer-level call of the decoder returns.
Finish(t) ==
    /\ pc' = [pc EXCEPT ![t] = "idle"]
    /\ outer' = [outer EXCEPT ![t] = NoOuter]

readMetadata(t) ==
    \/ /\ pc[t] = "readMetadata"
       /\ mutex_ = "none"
       /\ IF songHead_ = songTail_ \/ pcmLeft_ # 0
          THEN /\ Goto(t, "readPcm")
               /\ UNCHANGED <<pcmLeft_, rowVars, outer, metaLog>>
          ELSE /\ songTail_' = (songTail_ + 1) % SongChanges
               /\ metaLog' = [metaLog EXCEPT
                                !.stored = IF @ = <<>> THEN @ ELSE Tail(@),
                                !.last = IF metaLog.stored = <<>> THEN -1
                                         ELSE Head(metaLog.stored)]
               /\ pcmLeft_' = songChanges_[songTail_].pcmBytes
               /\ songChanges_' = [songChanges_ EXCEPT ![songTail_] = NoRow]
               /\ outer' = [outer EXCEPT
                              ![t].meta = songChanges_[songTail_].metadata,
                              ![t].pos = songChanges_[songTail_].pos]
               /\ Goto(t, "readMetadata_notify")
               /\ UNCHANGED songHead_
       /\ UNCHANGED <<ringVars, call, histVars, elseVars,
                      pcmClosed_, skip_, mutex_,
                      hasPcm_, nextMeta, shouldRun, enc>>
    \/ /\ pc[t] = "readMetadata_notify"
       /\ hasPcm_' = {}
       /\ outer' = [outer EXCEPT ![t].pos = 0]
       /\ Goto(t, "run_track")
       /\ UNCHANGED <<ringVars, call, histVars, elseVars,
                      pcmLeft_, rowVars, pcmClosed_,
                      skip_, mutex_, nextMeta, shouldRun,
                      metaLog, enc>>

\* canRead -= canRead % bytesPerFrame
FrameAligned(canRead) == canRead - (canRead % BytesPerFrame)

\* The predicate readPcm waits for on hasPcm_.
HasPcmPred == pcmLeft_ > 0 \/ songHead_ # songTail_ \/ pcmClosed_

readPcm(t) ==
    \/ /\ pc[t] \in {"readPcm", "readPcm_parked"}
       /\ mutex_ = "none"
       /\ t \notin hasPcm_
       /\ IF ~HasPcmPred
          THEN \* the predicate is false: about to wait, mutex_ still held
               /\ mutex_' = t
               /\ Goto(t, "readPcm_wait")
               /\ UNCHANGED <<pcmLeft_, outer, call>>
          ELSE LET canRead == FrameAligned(Min(pcmLeft_, EncoderBuffer)) IN
               /\ UNCHANGED mutex_
               /\ IF canRead = 0
                  THEN /\ outer' = [outer EXCEPT ![t].n = 0]
                       /\ Goto(t, "run_test")
                       /\ UNCHANGED <<pcmLeft_, call>>
                  ELSE /\ pcmLeft_' = pcmLeft_ - canRead
                       /\ outer' = [outer EXCEPT ![t].n = canRead]
                       /\ call' = [call EXCEPT ![t] =
                                     [NoCall EXCEPT !.op = "readFull",
                                                    !.count = canRead,
                                                    !.orig = canRead]]
                       /\ Goto(t, "readFull")
       /\ UNCHANGED <<ringVars, histVars, elseVars,
                      rowVars, pcmClosed_, skip_, hasPcm_,
                      nextMeta, shouldRun,
                      metaLog, enc>>
    \/ /\ pc[t] = "readPcm_wait"
       /\ hasPcm_' = hasPcm_ \cup {t}
       /\ mutex_' = "none"
       /\ Goto(t, "readPcm_parked")
       /\ UNCHANGED <<ringVars, call, histVars, elseVars,
                      pcmLeft_, rowVars, pcmClosed_,
                      skip_, outer, nextMeta, shouldRun,
                      metaLog, enc>>
    \/ /\ pc[t] = "ret"
       /\ outer[t].op = "run"
       /\ call' = [call EXCEPT ![t] = NoCall]
       /\ Goto(t, "run_test")
       /\ UNCHANGED <<ringVars, histVars, elseVars, pcmVars>>

\* The row writeMetadata stores at songHead_.
WriteRow(t) ==
    /\ songChanges_' = [songChanges_ EXCEPT ![songHead_] =
                          [metadata |-> outer[t].meta, pcmBytes |-> 0,
                           pos |-> head_]]
    /\ songHead_' = (songHead_ + 1) % SongChanges
    /\ metaLog' = [metaLog EXCEPT !.stored = Append(@, outer[t].meta)]
    /\ Goto(t, "writeMetadata_notify")
    /\ UNCHANGED <<songTail_, outer>>

\* writeMetadata returns without having stored the row.
DropRow(t) ==
    /\ metaLog' = [metaLog EXCEPT !.drained = FALSE]
    /\ Finish(t)
    /\ UNCHANGED rowVars

writeMetadata(t) ==
    \/ /\ pc[t] = "writeMetadata"
       /\ IF pcmClosed_
          THEN Finish(t) /\ UNCHANGED metaLog
          ELSE /\ Goto(t, "writeMetadata_lock")
               /\ metaLog' = [metaLog EXCEPT
                                !.drained = (songHead_ = songTail_)]
               /\ UNCHANGED outer
       /\ UNCHANGED <<ringVars, call, histVars, elseVars,
                      pcmLeft_, rowVars, pcmClosed_,
                      skip_, mutex_, hasPcm_, nextMeta, shouldRun, enc>>
    \/ /\ pc[t] = "writeMetadata_lock"
       /\ mutex_ = "none"
       /\ IF metadataFull_
          THEN /\ Goto(t, "writeMetadata_sleep")
               /\ UNCHANGED <<rowVars, outer, metaLog>>
          ELSE WriteRow(t)
       /\ UNCHANGED <<ringVars, call, histVars, elseVars,
                      pcmLeft_, pcmClosed_, skip_,
                      mutex_, hasPcm_, nextMeta, shouldRun, enc>>
    \/ /\ pc[t] = "writeMetadata_sleep"
       /\ IF mutex_ # "none"
          THEN \* try_lock_for gives up
               DropRow(t)
          ELSE IF metadataFull_
               THEN DropRow(t)
               ELSE WriteRow(t)
       /\ UNCHANGED <<ringVars, call, histVars, elseVars,
                      pcmLeft_, pcmClosed_, skip_,
                      mutex_, hasPcm_, nextMeta, shouldRun, enc>>
    \/ /\ pc[t] = "writeMetadata_notify"
       /\ hasPcm_' = {}
       /\ metaLog' = [metaLog EXCEPT !.drained = FALSE]
       /\ Finish(t)
       /\ UNCHANGED <<ringVars, call, histVars, elseVars,
                      pcmLeft_, rowVars, pcmClosed_,
                      skip_, mutex_, nextMeta, shouldRun, enc>>

\* written = pcm_.closedToWrites() ? data.size() : 0
Written(closedToWritesResult, size) == IF closedToWritesResult THEN size ELSE 0

\* if (skip_) pcm_.writeTimed(...) else pcm_.writeFull(...)
WriteOp_AlwaysFull(skip) == "writeFull"
WriteOp(skip) == IF skip THEN "writeTimed" ELSE "writeFull"

writePcm(t) ==
    \/ /\ pc[t] = "writePcm"
       /\ IF pcmClosed_
          THEN Finish(t) /\ UNCHANGED call
          ELSE \E late \in BOOLEAN :
                  /\ late => skip_
                  /\ call' = [call EXCEPT ![t] =
                                [NoCall EXCEPT
                                   !.op = WriteOp(skip_),
                                   !.count = outer[t].size,
                                   !.orig = outer[t].size,
                                   !.expired = late]]
                  /\ Goto(t, call'[t].op)
                  /\ UNCHANGED outer
       /\ UNCHANGED <<ringVars, histVars, elseVars,
                      pcmLeft_, rowVars, pcmClosed_, skip_,
                      mutex_, hasPcm_, nextMeta, shouldRun,
                      metaLog, enc>>
    \/ /\ pc[t] = "ret"
       /\ outer[t].op = "writePcm"
       /\ IF call[t].op = "writeTimed"
          THEN /\ outer' = [outer EXCEPT ![t].n = call[t].ret]
               /\ Goto(t, "writePcm_credit")
               /\ call' = [call EXCEPT ![t] = NoCall]
          ELSE IF call[t].op = "writeFull"
          THEN /\ call' = [call EXCEPT ![t] =
                             [NoCall EXCEPT !.op = "closedToWrites"]]
               /\ Goto(t, "closedToWrites")
               /\ UNCHANGED outer
          ELSE /\ outer' = [outer EXCEPT
                              ![t].n = Written(call[t].ret = 1, outer[t].size)]
               /\ Goto(t, "writePcm_credit")
               /\ call' = [call EXCEPT ![t] = NoCall]
       /\ UNCHANGED <<ringVars, histVars, elseVars,
                      pcmLeft_, rowVars, pcmClosed_, skip_,
                      mutex_, hasPcm_, nextMeta, shouldRun,
                      metaLog, enc>>
    \/ /\ pc[t] = "writePcm_credit"
       /\ IF outer[t].n = 0
          THEN Finish(t) /\ UNCHANGED <<pcmLeft_, songChanges_>>
          ELSE /\ mutex_ = "none"
               /\ IF songHead_ # songTail_
                  THEN LET index == IF songHead_ = 0 THEN SongChanges - 1
                                                     ELSE songHead_ - 1 IN
                       /\ songChanges_' =
                             [songChanges_ EXCEPT
                                ![index].pcmBytes = @ + outer[t].n]
                       /\ UNCHANGED pcmLeft_
                  ELSE /\ pcmLeft_' = pcmLeft_ + outer[t].n
                       /\ UNCHANGED songChanges_
               /\ Goto(t, "writePcm_notify")
               /\ UNCHANGED outer
       /\ UNCHANGED <<ringVars, call, histVars, elseVars, songHead_, songTail_,
                      pcmClosed_, skip_, mutex_, hasPcm_, nextMeta, shouldRun,
                      metaLog, enc>>
    \/ /\ pc[t] = "writePcm_notify"
       /\ hasPcm_' = {}
       /\ Finish(t)
       /\ UNCHANGED <<ringVars, call, histVars, elseVars,
                      pcmLeft_, rowVars, pcmClosed_,
                      skip_, mutex_, nextMeta, shouldRun,
                      metaLog, enc>>

\* PcmBuffer::close
pcmClose(t) ==
    \/ /\ pc[t] = "pcmClose"
       /\ pcmClosed_' = TRUE
       /\ call' = [call EXCEPT ![t] = [NoCall EXCEPT !.op = "close"]]
       /\ Goto(t, "close")
       /\ UNCHANGED <<ringVars, histVars, elseVars,
                      pcmLeft_, rowVars, skip_, mutex_,
                      hasPcm_, outer, nextMeta, shouldRun,
                      metaLog, enc>>
    \/ /\ pc[t] = "ret"
       /\ outer[t].op = "close"
       /\ hasPcm_' = {}
       /\ pc' = [pc EXCEPT ![t] = "closed"]
       /\ outer' = [outer EXCEPT ![t] = NoOuter]
       /\ call' = [call EXCEPT ![t] = NoCall]
       /\ UNCHANGED <<ringVars, histVars, elseVars,
                      pcmLeft_, rowVars, pcmClosed_,
                      skip_, mutex_, nextMeta, shouldRun,
                      metaLog, enc>>

\* ------------------------------------------------------------ encoder driver
\* BaseEncoder::run: the loop test, readMetadata, readPcm, and the test of
\* readPcm's result.
\* if (track) endTrack(); as it acts on the driver's state e.
EndTrackIfOpen(e) ==
    IF e.track THEN [e EXCEPT !.ok = @ /\ e.open, !.open = FALSE] ELSE e

\* startTrack(*metadataPtr); track = true;
StartTrack(e) == [e EXCEPT !.ok = @ /\ ~e.open, !.open = TRUE, !.track = TRUE]

\* What the driver does with a metadata pointer that is not null.
OnMetadata_NoEnd(e) == StartTrack(e)
OnMetadata(e) == StartTrack(EndTrackIfOpen(e))

run(t) ==
    \/ /\ pc[t] = "run"
       /\ Goto(t, IF shouldRun THEN "readMetadata" ELSE "run_exit")
       /\ UNCHANGED <<ringVars, call, histVars, elseVars, pcmVars>>
    \/ /\ pc[t] = "run_track"
       /\ enc' = OnMetadata(enc)
       /\ outer' = [outer EXCEPT ![t].meta = -1]
       /\ metaLog' = [metaLog EXCEPT !.last = -1]
       /\ Goto(t, "readPcm")
       /\ UNCHANGED <<ringVars, call, histVars, elseVars,
                      pcmLeft_, rowVars, pcmClosed_,
                      skip_, mutex_, hasPcm_, nextMeta, shouldRun>>
    \/ /\ pc[t] = "run_exit"
       /\ enc' = [EndTrackIfOpen(enc) EXCEPT !.sinksClosed = TRUE]
       /\ Goto(t, "run_done")
       /\ UNCHANGED <<ringVars, call, histVars, elseVars,
                      pcmLeft_, rowVars, pcmClosed_,
                      skip_, mutex_, hasPcm_, outer, nextMeta, shouldRun,
                      metaLog>>
    \/ /\ pc[t] = "run_test"
       /\ Goto(t, IF outer[t].n # 0 THEN "run"
                  ELSE IF pcmClosed_ THEN "run_exit" ELSE "run")
       /\ outer' = [outer EXCEPT ![t].n = 0]
       /\ UNCHANGED <<ringVars, call, histVars, elseVars,
                      pcmLeft_, rowVars, pcmClosed_,
                      skip_, mutex_, hasPcm_, nextMeta, shouldRun,
                      metaLog, enc>>

\* ------------------------------------------------------------ the PCM buffer at work
\* The decoder thread "w" writes tracks: a row of metadata, blocks of whole
\* frames of PCM, in any order, and at some point has no more jobs.
decoder(t) ==
    /\ t = "w"
    /\ pc[t] = "idle"
    /\ \/ /\ outer' = [outer EXCEPT ![t] =
                         [NoOuter EXCEPT !.op = "writeMetadata",
                                         !.meta = nextMeta]]
          /\ nextMeta' = (nextMeta + 1) % Tracks
          /\ Goto(t, "writeMetadata")
       \/ /\ \E k \in 1..MaxFrames :
                outer' = [outer EXCEPT ![t] =
                            [NoOuter EXCEPT !.op = "writePcm",
                                            !.size = k * BytesPerFrame]]
          /\ Goto(t, "writePcm")
          /\ UNCHANGED nextMeta
       \/ /\ Goto(t, "done")
          /\ UNCHANGED <<outer, nextMeta>>
    /\ UNCHANGED <<ringVars, call, histVars, elseVars,
                   pcmLeft_, rowVars, pcmClosed_,
                   skip_, mutex_, hasPcm_, shouldRun, metaLog, enc>>

\* Server::run closes the PCM buffer once the decoder jobs are done (graceful
\* quit); Server::quit clears shouldRun and closes it at any time.
server(t) ==
    /\ t = "c"
    /\ pc[t] = "idle"
    /\ \/ pc["w"] = "done" /\ UNCHANGED shouldRun
       \/ shouldRun' = FALSE
    /\ outer' = [outer EXCEPT ![t] = [NoOuter EXCEPT !.op = "close"]]
    /\ Goto(t, "pcmClose")
    /\ UNCHANGED <<ringVars, call, histVars, elseVars,
                   pcmLeft_, rowVars, pcmClosed_,
                   skip_, mutex_, hasPcm_, nextMeta, metaLog, enc>>

InitPcm ==
    /\ size_ = PcmBufferSize
    /\ buffer_ = [i \in 0..PcmBufferSize |-> 0]
    /\ head_ = 0
    /\ tail_ = 0
    /\ closed_ = FALSE
    /\ waitToRead_ = {}
    /\ waitToWrite_ = {}
    /\ pc = [t \in Threads |-> IF t = "r" THEN "run" ELSE "idle"]
    /\ call = [t \in Threads |-> NoCall]
    /\ nextVal = 0
    /\ pending = <<>>
    /\ workload = "pcm"
    /\ InitPcmBuffer
    /\ skip_ \in BOOLEAN
    /\ outer = [t \in Threads |->
                  IF t = "r" THEN [NoOuter EXCEPT !.op = "run"] ELSE NoOuter]
    /\ nextMeta = 0
    /\ shouldRun = TRUE
    /\ NoPackets
    /\ NoJobs
    /\ NoRest

PcmRingStep(t) ==
    /\ \/ readFull(t)
       \/ writeFull(t)
       \/ writeTimed(t)
       \/ Tick(t)
       \/ close(t)
       \/ closedToWrites(t)
    /\ UNCHANGED <<pcmVars, elseVars>>

NextPcm ==
    \E t \in Threads :
        \/ decoder(t)
        \/ server(t)
        \/ writeMetadata(t)
        \/ writePcm(t)
        \/ readMetadata(t)
        \/ readPcm(t)
        \/ run(t)
        \/ pcmClose(t)
        \/ PcmRingStep(t)

SpecPcm == InitPcm /\ [][NextPcm]_vars

\* A step of thread t's own program: everything but the server's decision to
\* close and the decoder's choice of what to write next.
PcmStep(t) ==
    \/ writeMetadata(t)
    \/ writePcm(t)
    \/ readMetadata(t)
    \/ readPcm(t)
    \/ run(t)
    \/ pcmClose(t)
    \/ PcmRingStep(t)

\* The thread that holds mutex_ across readPcm's wait goes on to park, which
\* releases it.
MutexRelease(t) == pc[t] = "readPcm_wait" /\ readPcm(t)

\* Server::run alone: nothing calls Server::quit, and the buffer is closed
\* only once the decoder jobs are done.
serverStop(t) == pc["w"] = "done" /\ server(t) /\ UNCHANGED shouldRun

NextPcmRunning ==
    \E t \in Threads :
        \/ decoder(t)
        \/ serverStop(t)
        \/ writeMetadata(t)
        \/ writePcm(t)
        \/ readMetadata(t)
        \/ readPcm(t)
        \/ run(t)
        \/ pcmClose(t)
        \/ PcmRingStep(t)

SpecPcmRunning == InitPcm /\ [][NextPcmRunning]_vars

\* Every thread that can take a step of its program eventually takes one; the
\* decoder is free to stop writing or never to.
SpecPcmFair == SpecPcmRunning /\ \A t \in Threads : WF_vars(PcmStep(t))

\* Only the producer is scheduled (and time passes for it); the consumer may
\* stall anywhere except while it holds mutex_.
SpecPcmProducerFair ==
    SpecPcmRunning /\ WF_vars(PcmStep("w")) /\ WF_vars(MutexRelease("r"))

\* ------------------------------------------------------------ PCM buffer claims
\* The rows queued, as indices into songChanges_.
Queued == {(songTail_ + k) % SongChanges :
              k \in 0..(((songHead_ - songTail_) % SongChanges) - 1)}

RECURSIVE SumBytes(_)
SumBytes(i) == IF i < 0 THEN 0 ELSE songChanges_[i].pcmBytes + SumBytes(i - 1)

\* pcm_left plus the bytes associated with the rows.
Credited == pcmLeft_ + SumBytes(SongChanges - 1)

\* The consumer is inside readPcm.
InReadPcm ==
    pc["r"] \in {"readPcm", "readPcm_wait", "readPcm_parked", "readFull",
                 "readFull_didRead", "ret"}

\* C1: the consumer meets rows and PCM bytes in the order the producer wrote
\* them: no byte written after a queued row has been read while the row is
\* still queued (the row's place lies among the unread bytes of pcm_), and
\* readMetadata returns a row only when every byte written before it has been
\* read (the row's place is where the next read starts).
C1_Order ==
    /\ \A i \in Queued :
          (songChanges_[i].pos - tail_) % (size_ + 1) <= lockedToRead_
    /\ pc["r"] = "readMetadata_notify" => outer["r"].pos = tail_

\* C2: whenever neither writePcm nor readPcm is in progress, pcm_left plus the
\* bytes associated with the queued rows equals the occupancy of pcm_.
C2_Balance ==
    (outer["w"].op # "writePcm" /\ ~InReadPcm) => Credited = lockedToRead_

\* C3: with the drop policy disabled and the buffer open, the byte count
\* writePcm goes on to credit is data.size().
C3_CreditsAll ==
    (pc["w"] = "writePcm_credit" /\ ~skip_ /\ ~pcmClosed_) =>
        outer["w"].n = outer["w"].size

\* C4: on graceful quit the encoder driver has left its loop only with
\* nothing remaining: no byte in pcm_, no queued row, pcm_left = 0.
C4_Drained ==
    (pc["r"] = "run_done" /\ shouldRun) =>
        (lockedToRead_ = 0 /\ songHead_ = songTail_ /\ pcmLeft_ = 0)

\* The metadata of the queued rows, oldest first.
RECURSIVE RowsFrom(_, _)
RowsFrom(i, k) ==
    IF k = 0 THEN <<>>
    ELSE <<songChanges_[i].metadata>> \o RowsFrom((i + 1) % SongChanges, k - 1)

QueuedRows == RowsFrom(songTail_, (songHead_ - songTail_) % SongChanges)

\* C14: metadata rows written with writeMetadata are read back by readMetadata
\* in the order written and with the contents written, none twice and none
\* skipped: the rows waiting in the queue are exactly the rows stored and not
\* yet read, oldest first; the event readMetadata hands to the driver is the
\* oldest of them; and a writeMetadata call made on an open buffer once the
\* consumer has read everything before it never gives its row up.
C14_MetadataRoundTrip ==
    /\ QueuedRows = metaLog.stored
    /\ pc["r"] = "run_track" =>
          (outer["r"].meta # -1 /\ outer["r"].meta = metaLog.last)
    /\ metaLog.drained => pc["w"] # "writeMetadata_sleep"

\* The second track's row is read back while a third row is already queued.
C14_Witness ==
    /\ pc["r"] = "run_track"
    /\ outer["r"].meta = 1
    /\ enc.track
    /\ Len(metaLog.stored) = 1

\* C15: with the drop policy disabled, a writePcm call on a buffer that stays
\* open eventually returns, the consumer being scheduled throughout.
C15_WritePcmReturns ==
    (outer["w"].op = "writePcm" /\ ~skip_) ~>
        (outer["w"].op # "writePcm" \/ pcmClosed_)

\* C16: with the drop policy enabled a writePcm call always returns, whatever
\* the consumer does, and what it credits to the newest row or to pcm_left is
\* what the byte ring admitted: while the consumer is outside readPcm, the
\* bytes credited plus those about to be are the bytes waiting in the ring.
C16_DropReturnsAndCredits ==
    /\ (outer["w"].op = "writePcm" /\ skip_) ~> (outer["w"].op # "writePcm")
    /\ [](( /\ skip_
            /\ pc["w"] = "writePcm_credit"
            /\ ~InReadPcm) => Credited + outer["w"].n = lockedToRead_)

\* The deadline has passed with the ring full: the call admitted a part of
\* the block only and is about to credit that part.
C16_Witness ==
    /\ skip_
    /\ pc["w"] = "writePcm_credit"
    /\ outer["w"].n > 0
    /\ outer["w"].n < outer["w"].size
    /\ ~pcmClosed_

\* C20: the plugin sees startTrack and endTrack strictly alternating,
\* startTrack first: startTrack never comes while a track is open and endTrack
\* never while none is; once the driver has left its loop no track is open
\* (the open one got its endTrack at loop exit) and every packet buffer of the
\* driver is closed.
C20_TracksAlternate ==
    /\ enc.ok
    /\ pc["r"] # "run_done" => enc.track = enc.open
    /\ pc["r"] = "run_done" => (~enc.open /\ enc.sinksClosed)
    /\ enc.sinksClosed => pc["r"] = "run_done"

\* The driver has left the loop with a track open and has ended it.
C20_Witness ==
    /\ pc["r"] = "run_done"
    /\ enc.track
    /\ ~enc.open
    /\ enc.sinksClosed


\* ------------------------------------------------------------ the ring on its own
\* One writer "w", one reader "r" and a third thread "c" that closes.  A run
\* exercises one side of the ring: under workload "reads" the reader calls any
\* read operation while the writer feeds the ring with writeFull; under
\* workload "writes" the writer calls any write operation while the reader
\* drains the ring with readFull.  A call moves one element or as many as the
\* ring holds.
ReadOps == {"readPartial", "readSome", "readFull", "skipFull", "get"}
WriteOps == {"writePartial", "writeFull", "writeTimed", "putNoWait"}
Counts == {1, size_}

\* The label a call of op starts at.
Entry(op) == IF op = "putNoWait" THEN "writePartial" ELSE op

CallRead(t) ==
    /\ t = "r"
    /\ pc[t] \in {"idle", "ret"}
    /\ \E op \in ReadOps, count \in Counts :
          /\ workload = "writes" => op = "readFull"
          /\ op = "get" => count = 1
          /\ call' = [call EXCEPT ![t] =
                        [NoCall EXCEPT !.op = op, !.count = count,
                                       !.orig = count]]
          /\ Goto(t, Entry(op))
    /\ UNCHANGED <<ringVars, histVars, pcmVars, elseVars>>

CallWrite(t) ==
    /\ t = "w"
    /\ pc[t] \in {"idle", "ret"}
    /\ \E op \in WriteOps, count \in Counts, late \in BOOLEAN :
          /\ workload = "reads" => op = "writeFull"
          /\ op = "putNoWait" => count = 1
          /\ op # "writeTimed" => ~late
          /\ call' = [call EXCEPT ![t] =
                        [NoCall EXCEPT !.op = op, !.count = count,
                                       !.orig = count,
                                       !.expired = late, !.past = late]]
          /\ Goto(t, Entry(op))
    /\ UNCHANGED <<ringVars, histVars, pcmVars, elseVars>>

InitRing ==
    /\ size_ = RingSize
    /\ buffer_ = [i \in 0..RingSize |-> 0]
    /\ head_ = 0
    /\ tail_ = 0
    /\ closed_ = FALSE
    /\ waitToRead_ = {}
    /\ waitToWrite_ = {}
    /\ pc = [t \in Threads |-> IF t = "c" THEN "close" ELSE "idle"]
    /\ call = [t \in Threads |-> NoCall]
    /\ nextVal = 0
    /\ pending = <<>>
    /\ workload \in {"reads", "writes"}
    /\ InitPcmBuffer
    /\ skip_ = TRUE
    /\ outer = [t \in Threads |-> NoOuter]
    /\ nextMeta = 0
    /\ shouldRun = TRUE
    /\ NoPackets
    /\ NoJobs
    /\ NoRest

RingStep(t) ==
    /\ \/ readPartial(t)
       \/ readSome(t)
       \/ readFull(t)
       \/ skipFull(t)
       \/ get(t)
       \/ writePartial(t)
       \/ writeFull(t)
       \/ writeTimed(t)
       \/ Tick(t)
       \/ close(t)
    /\ UNCHANGED <<pcmVars, elseVars>>

NextRing ==
    \E t \in Threads :
        \/ CallRead(t)
        \/ CallWrite(t)
        \/ RingStep(t)

SpecRing == InitRing /\ [][NextRing]_vars

\* The scheduler runs every thread that can run; the passing of a deadline is
\* not something a blocked thread may count on, so Tick is left out.
OpStep(t) ==
    /\ \/ readPartial(t)
       \/ readSome(t)
       \/ readFull(t)
       \/ skipFull(t)
       \/ get(t)
       \/ writePartial(t)
       \/ writeFull(t)
       \/ writeTimed(t)
       \/ close(t)
    /\ UNCHANGED <<pcmVars, elseVars>>

SpecRingFair == SpecRing /\ \A t \in Threads : WF_vars(OpStep(t))

\* ------------------------------------------------------------ ring claims
\* C5: the occupancy 0 <= occupancy <= N in every reachable state, and equals
\* the number of elements written and not yet read, as computed from head_ and
\* tail_ modulo N + 1.
C5_Occupancy ==
    /\ lockedToRead_ >= 0
    /\ lockedToRead_ <= size_
    /\ lockedToRead_ = Len(pending)
    /\ lockedToRead_ = (head_ - tail_) % (size_ + 1)
    /\ lockedToWrite_ = size_ - Len(pending)

\* The ring is full with head_ wrapped around behind tail_.
C5_Witness == head_ < tail_ /\ Len(pending) = size_ /\ closed_

\* C6: with one writer and one reader the ring holds exactly the elements
\* admitted and not yet read, oldest first, and every element a read delivers
\* is the oldest one: reads return the admitted elements in order, once each.
C6_Fifo ==
    /\ Contents = pending
    /\ \A t \in Threads : call[t].fifo

\* A readFull returned a ring's worth of elements that lay across the end of
\* buffer_, and left the ring empty.
C6_Witness ==
    /\ pc["r"] = "ret"
    /\ call["r"].op = "readFull"
    /\ call["r"].ret = size_
    /\ head_ = tail_
    /\ tail_ \in 1..(size_ - 1)

\* C7: once the ring is closed no write operation admits a further element
\* (the number of pending elements never grows).
C7_NoAdmitAfterClose == [][closed_ => Len(pending') <= Len(pending)]_vars

\* C8: after close() every thread inside a ring operation, blocked or not,
\* returns, with no help from another thread's later calls.
C8_CloseWakes ==
    \A t \in {"w", "r"} :
        (closed_ /\ pc[t] \notin {"idle", "ret"}) ~> (pc[t] = "ret")

\* The ring was closed while a thread was parked on a condition variable.
C8_Witness == closed_ /\ (waitToRead_ \cup waitToWrite_) # {}

\* C9: writePartial returns the number of elements it wrote, min(n, free space).
C9_WritePartialCount ==
    [][\A t \in Threads :
          (pc[t] = "writePartial" /\ pc'[t] # "writePartial") =>
             /\ call'[t].ret = Min(call[t].count, lockedToWrite_)
             /\ Len(pending') = Len(pending) + call'[t].ret]_vars

\* C10 as stated: a writeTimed whose deadline was already past at the call
\* returns 0.
C10_PastDeadlineReturnsZero ==
    \A t \in Threads :
        (pc[t] = "ret" /\ call[t].op = "writeTimed" /\ call[t].past) =>
            call[t].ret = 0

\* C10 amended: a writeTimed whose deadline was already past at the call never
\* parks to wait for space; its first critical section admits nothing if the
\* ring is closed (and the call returns 0) or full, and otherwise admits
\* min(n, free space) elements at once.
C10_PastDeadlineNoWait ==
    [][\A t \in Threads :
          (call[t].op = "writeTimed" /\ call[t].past) =>
             /\ pc'[t] # "writeTimed_wait"
             /\ t \notin waitToWrite_'
             /\ (pc[t] = "writeTimed" /\ ~call[t].lockWait /\ pc'[t] # pc[t]) =>
                   IF closed_
                   THEN pending' = pending /\ pc'[t] = "ret" /\ call'[t].ret = 0
                   ELSE IF lockedToWrite_ = 0
                   THEN pending' = pending /\ pc'[t] = "writeTimed_timeout"
                   ELSE Len(pending') =
                           Len(pending) + Min(call[t].count, lockedToWrite_)]_vars

\* A writeTimed with a deadline already past has returned a whole ring's worth.
C10_Witness ==
    /\ pc["w"] = "ret"
    /\ call["w"].op = "writeTimed"
    /\ call["w"].past
    /\ call["w"].ret = size_

\* ------------------------------------------------------------ the packet ring
\* PcmBuffer's state but for outer, and the job queue's: what no step of a
\* packet ring buffer touches.
pcmRest == <<pcmLeft_, songChanges_, songHead_, songTail_, pcmClosed_, skip_,
             mutex_, hasPcm_, nextMeta, shouldRun, metaLog, enc, jobVars,
             restVars>>

\* A caller's fresh ring call of op for count elements.
RingCall(op, count) ==
    [NoCall EXCEPT !.op = op, !.count = count, !.orig = count]

\* The encoder, while it runs, hands the next packet to writePacket: audio
\* data of any size, or out-of-band metadata (of one byte).
producer(t) ==
    /\ t = "w"
    /\ pc[t] = "idle"
    /\ shouldRun
    /\ \E size \in 0..MaxPayload, flags \in {0, OutOfBandMetadata} :
          /\ flags # 0 => size = 1
          /\ wr' = [id |-> (wr.id + 1) % Packets, dataSize |-> size,
                    flags |-> flags]
    /\ outer' = [outer EXCEPT ![t] = [NoOuter EXCEPT !.op = "writePacket"]]
    /\ Goto(t, "writePacket")
    /\ UNCHANGED <<ringVars, call, histVars, pcmRest, cache, taken, expect>>

\* Server::quit, called once the process has been told to stop, closes the
\* encoders' packet ring buffers whatever their threads are doing.
quit(t) ==
    /\ t = "c"
    /\ pc[t] = "idle"
    /\ shouldRun' = FALSE
    /\ Goto(t, "close")
    /\ UNCHANGED <<ringVars, call, histVars, pcmLeft_, rowVars, pcmClosed_,
                   skip_, mutex_, hasPcm_, outer, nextMeta, metaLog, enc,
                   elseVars>>

\* writePacket: writeHeader, then writeFull of the data; neither result is
\* looked at.
writePacket(t) ==
    \/ /\ pc[t] = "writePacket"
       /\ call' = [call EXCEPT ![t] = RingCall("writeFull", HeaderSize)]
       /\ outer' = [outer EXCEPT ![t].pos = 1]
       /\ Goto(t, "writeFull")
       /\ UNCHANGED <<ringVars, histVars, pcmRest, pktVars>>
    \/ /\ pc[t] = "ret"
       /\ outer[t].op = "writePacket"
       /\ outer[t].pos = 1
       /\ call' = [call EXCEPT ![t] = RingCall("writeFull", wr.dataSize)]
       /\ outer' = [outer EXCEPT ![t].pos = 2]
       /\ Goto(t, "writeFull")
       /\ UNCHANGED <<ringVars, histVars, pcmRest, pktVars>>
    \/ /\ pc[t] = "ret"
       /\ outer[t].op = "writePacket"
       /\ outer[t].pos = 2
       /\ call' = [call EXCEPT ![t] = NoCall]
       /\ Finish(t)
       /\ UNCHANGED <<ringVars, histVars, pcmRest, pktVars>>

\* The methods of PacketRead that read through the cursor.
CursorOps == {"readPartial", "readSome", "readFull", "skipFull"}

\* PacketRead::wantsToRead_
wantsToRead_NoClamp(n) == n
wantsToRead_(n) == Min(n, cache.left)

\* PacketRead::didRead_
PacketRead_didRead_(n) == [cache EXCEPT !.left = @ - n]

\* (header.flags & PacketFlags::OutOfBandMetadata) != 0
IsOutOfBand_Never(flags) == FALSE
IsOutOfBand(flags) == (flags \div OutOfBandMetadata) % 2 = 1

\* What a reader that takes the packets one by one does next: a read through
\* its cursor, or the next readPacket once the cursor's packet is finished.
consumer(t) ==
    /\ t = "r"
    /\ pc[t] = "idle"
    /\ \/ /\ cache.left = 0
          /\ outer' = [outer EXCEPT ![t] = [NoOuter EXCEPT !.op = "readPacket"]]
          /\ Goto(t, "readPacket")
       \/ /\ cache.left > 0
          /\ \E op \in CursorOps, n \in {1, MaxPayload} :
                /\ op = "skipFull" => n = MaxPayload
                /\ outer' = [outer EXCEPT ![t] =
                               [NoOuter EXCEPT
                                  !.op = op,
                                  !.size = IF op = "skipFull" THEN cache.left
                                           ELSE n]]
          /\ Goto(t, "PacketRead")
    /\ UNCHANGED <<ringVars, call, histVars, pcmRest, pktVars>>

\* A reader that takes the payload as one stream of bytes calls
\* readDirectFull, always with the same cursor.
directConsumer(t) ==
    /\ t = "r"
    /\ pc[t] = "idle"
    /\ \E n \in {1, DirectCount} :
          outer' = [outer EXCEPT ![t] =
                      [NoOuter EXCEPT !.op = "readDirectFull", !.size = n]]
    /\ Goto(t, "readDirectFull")
    /\ UNCHANGED <<ringVars, call, histVars, pcmRest, pktVars>>

\* PacketRead::readPartial, readSome, readFull and skipFull.
PacketRead(t) ==
    \/ /\ pc[t] = "PacketRead"
       /\ LET count == wantsToRead_(outer[t].size) IN
          IF count = 0 /\ outer[t].op # "skipFull"
          THEN Finish(t) /\ UNCHANGED call
          ELSE /\ call' = [call EXCEPT ![t] = RingCall(outer[t].op, count)]
               /\ Goto(t, outer[t].op)
               /\ UNCHANGED outer
       /\ UNCHANGED <<ringVars, histVars, pcmRest, pktVars>>
    \/ /\ pc[t] = "ret"
       /\ outer[t].op \in CursorOps
       /\ cache' = PacketRead_didRead_(call[t].ret)
       /\ taken' = <<>>
       /\ call' = [call EXCEPT ![t] = NoCall]
       /\ Finish(t)
       /\ UNCHANGED <<ringVars, histVars, pcmRest, wr, expect>>

\* The return of readHeader inside readPacket: short of a whole header the
\* caller gets the empty optional and keeps its cursor.
GotHeader(t) == call[t].ret = HeaderSize
HeaderRead(t) ==
    /\ taken' = <<>>
    /\ call' = [call EXCEPT ![t] = NoCall]
    /\ IF GotHeader(t)
       THEN LET header == ParseHeader(taken) IN
            /\ cache' = [left |-> header.dataSize, header |-> header]
            /\ expect' = (header.frameCount + 1) % Packets
       ELSE UNCHANGED <<cache, expect>>

readPacket(t) ==
    \/ /\ pc[t] = "readPacket"
       /\ call' = [call EXCEPT ![t] = RingCall("readFull", HeaderSize)]
       /\ outer' = [outer EXCEPT ![t].pos = 1]
       /\ Goto(t, "readFull")
       /\ UNCHANGED <<ringVars, histVars, pcmRest, pktVars>>
    \/ /\ pc[t] = "ret"
       /\ outer[t].op = "readPacket"
       /\ HeaderRead(t)
       /\ Finish(t)
       /\ UNCHANGED <<ringVars, histVars, pcmRest, wr>>

\* readDirectFull(cache, d_first, count): outer.size is count, outer.n is n,
\* outer.pos tells a read of a header (1) from one of payload (0), and
\* outer.meta, history, counts the out-of-band bytes the call has skipped.
readDirectFull(t) ==
    \* the top of the loop: cache.skipFull() or cache.readFull(dst, count)
    \/ /\ pc[t] = "readDirectFull"
       /\ IF IsOutOfBand(cache.header.flags)
          THEN /\ call' = [call EXCEPT ![t] = RingCall("skipFull", cache.left)]
               /\ Goto(t, "skipFull")
               /\ UNCHANGED outer
          ELSE LET count == wantsToRead_(outer[t].size) IN
               IF count = 0
               THEN /\ Goto(t, IF outer[t].size = 0 THEN "readDirectFull_done"
                                                   ELSE "readDirectFull_next")
                    /\ UNCHANGED <<call, outer>>
               ELSE /\ call' = [call EXCEPT ![t] = RingCall("readFull", count)]
                    /\ Goto(t, "readFull")
                    /\ UNCHANGED outer
       /\ UNCHANGED <<ringVars, histVars, pcmRest, pktVars>>
    \* back from the cursor: didRead_, and n += b, count -= b
    \/ /\ pc[t] = "ret"
       /\ outer[t].op = "readDirectFull"
       /\ outer[t].pos = 0
       /\ cache' = PacketRead_didRead_(call[t].ret)
       /\ taken' = <<>>
       /\ call' = [call EXCEPT ![t] = NoCall]
       /\ IF call[t].op = "skipFull"
          THEN /\ outer' = [outer EXCEPT ![t].meta = Min(@ + call[t].ret, 1)]
               /\ Goto(t, "readDirectFull_next")
          ELSE /\ outer' = [outer EXCEPT ![t].n = @ + call[t].ret,
                                         ![t].size = @ - call[t].ret]
               /\ Goto(t, IF outer[t].size = call[t].ret
                          THEN "readDirectFull_done"
                          ELSE "readDirectFull_next")
       /\ UNCHANGED <<ringVars, histVars, pcmRest, wr, expect>>
    \* readPacket
    \/ /\ pc[t] = "readDirectFull_next"
       /\ call' = [call EXCEPT ![t] = RingCall("readFull", HeaderSize)]
       /\ outer' = [outer EXCEPT ![t].pos = 1]
       /\ Goto(t, "readFull")
       /\ UNCHANGED <<ringVars, histVars, pcmRest, pktVars>>
    \/ /\ pc[t] = "ret"
       /\ outer[t].op = "readDirectFull"
       /\ outer[t].pos = 1
       /\ HeaderRead(t)
       /\ outer' = [outer EXCEPT ![t].pos = 0]
       /\ Goto(t, IF GotHeader(t) THEN "readDirectFull"
                                  ELSE "readDirectFull_done")
       /\ UNCHANGED <<ringVars, histVars, pcmRest, wr>>
    \* return n
    \/ /\ pc[t] = "readDirectFull_done"
       /\ Finish(t)
       /\ UNCHANGED <<ringVars, call, histVars, pcmRest, pktVars>>

\* A step of a ring operation on the packet ring buffer; what a read moves
\* out of buffer_ is remembered in taken.
PacketRingStep(t) ==
    /\ \/ readPartial(t)
       \/ readSome(t)
       \/ readFull(t)
       \/ skipFull(t)
       \/ writeFull(t)
       \/ close(t)
    /\ taken' = IF Len(pending') < Len(pending)
                THEN taken \o SubSeq(pending, 1, Len(pending) - Len(pending'))
                ELSE taken
    /\ UNCHANGED <<pcmVars, wr, cache, expect, jobVars, restVars>>

InitPacketBuffer(load) ==
    /\ size_ = PacketBufferSize
    /\ buffer_ = [i \in 0..PacketBufferSize |-> NoElem]
    /\ head_ = 0
    /\ tail_ = 0
    /\ closed_ = FALSE
    /\ waitToRead_ = {}
    /\ waitToWrite_ = {}
    /\ pc = [t \in Threads |-> "idle"]
    /\ call = [t \in Threads |-> NoCall]
    /\ nextVal = 0
    /\ pending = <<>>
    /\ workload = load
    /\ InitPcmBuffer
    /\ skip_ = TRUE
    /\ outer = [t \in Threads |-> NoOuter]
    /\ nextMeta = 0
    /\ shouldRun = TRUE
    /\ NoPackets
    /\ NoJobs
    /\ NoRest

NextPacket ==
    \E t \in Threads :
        \/ producer(t)
        \/ quit(t)
        \/ writePacket(t)
        \/ consumer(t)
        \/ PacketRead(t)
        \/ readPacket(t)
        \/ PacketRingStep(t)

InitPacket == InitPacketBuffer("packet")

SpecPacket == InitPacket /\ [][NextPacket]_vars

NextDirect ==
    \E t \in Threads :
        \/ producer(t)
        \/ quit(t)
        \/ writePacket(t)
        \/ directConsumer(t)
        \/ readDirectFull(t)
        \/ PacketRingStep(t)

InitDirect == InitPacketBuffer("direct")

SpecDirect == InitDirect /\ [][NextDirect]_vars

\* ------------------------------------------------------------ packet claims
\* The packet the reader's cursor is on, as the writer wrote it.
CursorPacket ==
    [id |-> cache.header.frameCount, dataSize |-> cache.header.dataSize,
     flags |-> cache.header.flags]

\* The ring call that has just returned to the reader moved out of the ring
\* the next bytes of payload of the cursor's packet and nothing else.
ChunkOfCursor ==
    /\ call["r"].ret <= cache.left
    /\ Len(taken) = call["r"].ret
    /\ call["r"].fifo
    /\ taken = SubSeq(PayloadElems(CursorPacket),
                      cache.header.dataSize - cache.left + 1,
                      cache.header.dataSize - cache.left + call["r"].ret)

\* readHeader has just returned to the reader the whole header, as written, of
\* the packet that follows the one before.
HeaderOfNext ==
    /\ call["r"].fifo
    /\ taken = HeaderElems([id |-> expect, dataSize |-> taken[1].v,
                            flags |-> taken[3].v])

\* C11: with one writer using writePacket and one reader that finishes each
\* PacketRead before it calls readPacket again, the reader gets the packets in
\* the order written, each header as written, and a cursor hands over the bytes
\* of its own packet only, in order, never more than header.dataSize of them
\* and never a byte of the packet that follows.
C11_PacketsInOrder ==
    /\ cache.left >= 0
    /\ cache.left <= cache.header.dataSize
    /\ (pc["r"] = "ret" /\ outer["r"].op = "readPacket" /\ GotHeader("r"))
          => HeaderOfNext
    /\ (pc["r"] = "ret" /\ outer["r"].op \in CursorOps) => ChunkOfCursor

\* The cursor of the second packet has handed over a whole payload while the
\* ring already holds bytes of the packet that follows.
C11_Witness ==
    /\ pc["r"] = "ret"
    /\ outer["r"].op = "readFull"
    /\ call["r"].ret = MaxPayload
    /\ cache.header.frameCount = 1
    /\ lockedToRead_ > 0

\* C12: writePacket is atomic for readers: once readPacket has returned a
\* header, either writePacket is still at work on that packet or the bytes
\* that follow in the buffer are the packet's payload, all that the reader has
\* not read yet of header.dataSize bytes; and this also when the buffer is
\* closed while writePacket is in progress.
C12_HeaderHasPayload ==
    (pc["r"] = "idle" /\ cache.left > 0) =>
        \/ outer["w"].op = "writePacket" /\ wr.id = cache.header.frameCount
        \/ /\ Len(pending) >= cache.left
           /\ SubSeq(pending, 1, cache.left) =
                 SubSeq(PayloadElems(CursorPacket),
                        cache.header.dataSize - cache.left + 1,
                        cache.header.dataSize)

\* C13: readDirectFull hands over the next bytes of the payloads of the
\* packets that are not out-of-band, taken end to end: what it reads are the
\* next bytes of audio data of its cursor's packet, what it skips are bytes of
\* out-of-band payload only, it moves to the next header only with the
\* cursor's packet used up, gets that header whole, and returns with all the
\* bytes asked for unless the buffer is closed.
C13_DirectRead ==
    /\ (pc["r"] = "ret" /\ outer["r"].op = "readDirectFull"
            /\ outer["r"].pos = 0) =>
          /\ ChunkOfCursor
          /\ \A i \in 1..Len(taken) :
                IF call["r"].op = "skipFull" THEN taken[i].v < 0
                                             ELSE taken[i].v > 0
          /\ call["r"].op = "readFull" => call["r"].ret <= outer["r"].size
    /\ (pc["r"] = "ret" /\ outer["r"].op = "readDirectFull"
            /\ outer["r"].pos = 1 /\ GotHeader("r")) =>
          (HeaderOfNext /\ cache.left = 0)
    /\ pc["r"] = "readDirectFull_done" => (outer["r"].size = 0 \/ closed_)

\* A readDirectFull has returned all of DirectCount bytes, having skipped an
\* out-of-band packet on its way, and has left the buffer empty.
C13_Witness ==
    /\ pc["r"] = "readDirectFull_done"
    /\ outer["r"].n = DirectCount
    /\ outer["r"].meta = 1
    /\ lockedToRead_ = 0
    /\ pc["w"] = "idle"
    /\ ~closed_

\* ------------------------------------------------------------ the job queue
\* What no step of the job queue touches, outer and pcmClosed_ apart.
jobRest == <<pcmLeft_, songChanges_, songHead_, songTail_, skip_, mutex_,
             hasPcm_, nextMeta, shouldRun, metaLog, enc, pktVars, restVars>>

\* std::mutex::lock can return once nobody holds the mutex.
Free_Always(m) == TRUE
Free(m) == m = "none"

\* waitingLock.lock() can return.
CanWait_Always == TRUE
CanWait == Free(waitingJob_)

\* Every thread of threads_ has returned from runJobs: join() returns.
Joined_Early == TRUE
Joined == \A t \in Workers : pc[t] = "exited"

\* JobQueue::runJobs, run by each worker.  The jobs are numbered in the order
\* they are added, cyclically, and a job's number is its value in jobs_.
runJobs(t) ==
    \* while (shouldRun()) { waitingLock.lock(); maybeJob = jobs_.get();
    \/ /\ pc[t] = "runJobs"
       /\ IF ~shouldRun
          THEN /\ Goto(t, "exited")
               /\ UNCHANGED <<call, waitingJob_>>
          ELSE /\ CanWait
               /\ waitingJob_' = t
               /\ call' = [call EXCEPT ![t] = RingCall("get", 1)]
               /\ Goto(t, "get")
       /\ UNCHANGED <<ringVars, histVars, jobRest, outer, pcmClosed_,
                      initJob_, runningJob_, job, jobLog>>
    \* no value: waitingLock.unlock(); if (jobs_.closed()) return; continue;
    \/ /\ pc[t] = "ret"
       /\ outer[t].op = "runJobs"
       /\ call[t].ret = 0
       /\ waitingJob_' = "none"
       /\ call' = [call EXCEPT ![t] = NoCall]
       /\ Goto(t, IF closed_ /\ head_ = tail_ THEN "exited" ELSE "runJobs")
       /\ UNCHANGED <<ringVars, histVars, jobRest, outer, pcmClosed_,
                      initJob_, runningJob_, job, jobLog>>
    \* a job: initLock.lock(); waitingLock.unlock(); job->init() begins
    \/ /\ pc[t] = "ret"
       /\ outer[t].op = "runJobs"
       /\ call[t].ret = 1
       /\ Free(initJob_)
       /\ initJob_' = t
       /\ waitingJob_' = "none"
       /\ call' = [call EXCEPT ![t] = NoCall]
       /\ jobLog' = [jobLog EXCEPT !.inits = (@ + 1) % Period]
       /\ Goto(t, "job_init")
       /\ UNCHANGED <<ringVars, histVars, jobRest, outer, pcmClosed_,
                      runningJob_, job>>
    \* job->init() returns
    \/ /\ pc[t] = "job_init"
       /\ Goto(t, "job_runLock")
       /\ UNCHANGED <<ringVars, call, histVars, jobRest, outer, pcmClosed_,
                      jobVars>>
    \* runningLock.lock(); initLock.unlock(); job->run(param_) begins
    \/ /\ pc[t] = "job_runLock"
       /\ Free(runningJob_)
       /\ runningJob_' = t
       /\ initJob_' = "none"
       /\ jobLog' = [jobLog EXCEPT !.runs = (@ + 1) % Period]
       /\ Goto(t, "job_run")
       /\ UNCHANGED <<ringVars, call, histVars, jobRest, outer, pcmClosed_,
                      waitingJob_, job>>
    \* job->run(param_) returns; runningLock.unlock(); }
    \/ /\ pc[t] = "job_run"
       /\ runningJob_' = "none"
       /\ job' = [job EXCEPT ![t] = -1]
       /\ jobLog' = [jobLog EXCEPT !.dones = (@ + 1) % Period]
       /\ Goto(t, "runJobs")
       /\ UNCHANGED <<ringVars, call, histVars, jobRest, outer, pcmClosed_,
                      waitingJob_, initJob_>>

\* Server::readCommands_ adds jobs (JobQueue::addJob is jobs_.putMove, a
\* writeMoveFull of one element, which waits and gives up as writeFull does).
addJob(t) ==
    \/ /\ t = "w"
       /\ pc[t] = "idle"
       /\ outer' = [outer EXCEPT ![t] = [NoOuter EXCEPT !.op = "addJob"]]
       /\ call' = [call EXCEPT ![t] = RingCall("writeFull", 1)]
       /\ Goto(t, "writeFull")
       /\ UNCHANGED <<ringVars, histVars, jobRest, pcmClosed_, jobVars>>
    \/ /\ pc[t] = "ret"
       /\ outer[t].op = "addJob"
       /\ call' = [call EXCEPT ![t] = NoCall]
       /\ Finish(t)
       /\ UNCHANGED <<ringVars, histVars, jobRest, pcmClosed_, jobVars>>

\* Server::run once it is out of commands: jobs_->close(); jobs_->stop(),
\* which is close() again and the join of every worker; pcm_->close().
\* outer.pos counts the close() calls begun and outer.n, history, is the
\* number of jobs that were waiting in jobs_ when the first began.
stopJobs(t) ==
    \/ /\ t = "w"
       /\ pc[t] = "idle"
       /\ outer' = [outer EXCEPT ![t] =
                      [NoOuter EXCEPT !.op = "stop", !.pos = 1,
                                      !.n = Len(pending)]]
       /\ Goto(t, "close")
       /\ UNCHANGED <<ringVars, call, histVars, jobRest, pcmClosed_, jobVars>>
    \/ /\ pc[t] = "ret"
       /\ outer[t].op = "stop"
       /\ IF outer[t].pos = 1
          THEN /\ outer' = [outer EXCEPT ![t].pos = 2]
               /\ Goto(t, "close")
          ELSE /\ Goto(t, "join")
               /\ UNCHANGED outer
       /\ UNCHANGED <<ringVars, call, histVars, jobRest, pcmClosed_, jobVars>>
    \/ /\ pc[t] = "join"
       /\ Joined
       /\ Goto(t, "stopped")
       /\ UNCHANGED <<ringVars, call, histVars, jobRest, outer, pcmClosed_,
                      jobVars>>
    \/ /\ pc[t] = "stopped"
       /\ pcmClosed_' = TRUE
       /\ Goto(t, "done")
       /\ UNCHANGED <<ringVars, call, histVars, jobRest, outer, jobVars>>

\* A step of a ring operation on jobs_; the element get() moves out of the
\* ring is the job the worker holds from then on.
JobRingStep(t) ==
    /\ \/ get(t)
       \/ writeFull(t)
       \/ close(t)
    /\ job' = IF Len(pending') < Len(pending)
              THEN [job EXCEPT ![t] = Head(pending)]
              ELSE job
    /\ UNCHANGED <<pcmVars, pktVars, restVars, waitingJob_, initJob_,
                   runningJob_, jobLog>>

InitJobs ==
    /\ size_ = JobQueueSize
    /\ buffer_ = [i \in 0..JobQueueSize |-> 0]
    /\ head_ = 0
    /\ tail_ = 0
    /\ closed_ = FALSE
    /\ waitToRead_ = {}
    /\ waitToWrite_ = {}
    /\ pc = [t \in Threads |-> IF t \in Workers THEN "runJobs" ELSE "idle"]
    /\ call = [t \in Threads |-> NoCall]
    /\ nextVal = 0
    /\ pending = <<>>
    /\ workload = "jobs"
    /\ InitPcmBuffer
    /\ skip_ = TRUE
    /\ outer = [t \in Threads |->
                  IF t \in Workers THEN [NoOuter EXCEPT !.op = "runJobs"]
                                   ELSE NoOuter]
    /\ nextMeta = 0
    /\ shouldRun = TRUE
    /\ NoPackets
    /\ NoJobs
    /\ NoRest

NextJobs ==
    \E t \in Threads :
        \/ runJobs(t)
        \/ addJob(t)
        \/ stopJobs(t)
        \/ JobRingStep(t)

SpecJobs == InitJobs /\ [][NextJobs]_vars

\* A step a thread takes once it can: all but the server's choice between one
\* more job and the end of the commands.
JobStep(t) ==
    \/ runJobs(t)
    \/ pc[t] # "idle" /\ addJob(t)
    \/ pc[t] # "idle" /\ stopJobs(t)
    \/ JobRingStep(t)

\* Every init() and run() returns and the scheduler runs every thread that
\* can run.
SpecJobsFair == SpecJobs /\ \A t \in Threads : WF_vars(JobStep(t))

\* ------------------------------------------------------------ job queue claims
InInit == {t \in Workers : pc[t] = "job_init"}
InRun == {t \in Workers : pc[t] = "job_run"}

\* C17: at any time at most one job is inside init() and at most one inside
\* run(); init() of a job may go on while the job before it is in run().
C17_OneInitOneRun ==
    /\ Cardinality(InInit) <= 1
    /\ Cardinality(InRun) <= 1

\* One job is in init() while the job before it is in run().
C17_Witness ==
    /\ pc["r"] = "job_init"
    /\ pc["c"] = "job_run"
    /\ job["r"] = (job["c"] + 1) % Period

\* C18: the jobs are initialised and run in the order they were added,
\* whatever the number of workers: the job inside init() is the next one after
\* all those whose init() has begun before, and each of these has entered
\* run(); the job inside run() is the next one after all those whose run()
\* has begun before, and each of these has returned from run().
C18_JobsInOrder ==
    \A t \in Workers :
        /\ pc[t] \in {"job_init", "job_runLock"} =>
              /\ job[t] = (jobLog.inits - 1) % Period
              /\ jobLog.runs = (jobLog.inits - 1) % Period
        /\ pc[t] = "job_run" =>
              /\ job[t] = (jobLog.runs - 1) % Period
              /\ jobLog.dones = (jobLog.runs - 1) % Period

\* The numbering has gone round: a worker is in init() of job 0 again while
\* the other worker runs the job before it.
C18_Witness ==
    /\ pc["c"] = "job_init"
    /\ job["c"] = 0
    /\ pc["r"] = "job_run"
    /\ job["r"] = Period - 1

\* C19: in a graceful quit, once the job queue is closed the workers still
\* initialise and run every job added before, then every worker leaves
\* runJobs, stop() returns, and only then is the PCM buffer closed: the
\* closing of the queue leads to the closing of the PCM buffer, and the PCM
\* buffer is closed only with every worker gone, jobs_ empty and every job
\* that was added run to its end.
C19_GracefulQuit ==
    /\ closed_ ~> pcmClosed_
    /\ [](pcmClosed_ =>
            /\ Joined
            /\ pending = <<>>
            /\ jobLog.inits = nextVal
            /\ jobLog.dones = nextVal)

\* The PCM buffer has been closed after a quit that found jobs_ full.
C19_Witness ==
    /\ pcmClosed_
    /\ Joined
    /\ outer["w"].n = JobQueueSize
    /\ jobLog.dones = nextVal

\* ------------------------------------------------------------ encoder driver
\* What no step of the encoder driver followed on its own touches, and the
\* state of it when it is not in use.
oldVars == <<ringVars, pc, call, histVars, pcmVars, pktVars, jobVars>>

Quiet ==
    /\ size_ = RingSize
    /\ buffer_ = [i \in 0..RingSize |-> 0]
    /\ head_ = 0
    /\ tail_ = 0
    /\ closed_ = FALSE
    /\ waitToRead_ = {}
    /\ waitToWrite_ = {}
    /\ pc = [t \in Threads |-> "idle"]
    /\ call = [t \in Threads |-> NoCall]
    /\ nextVal = 0
    /\ pending = <<>>
    /\ workload = "none"
    /\ InitPcmBuffer
    /\ skip_ = TRUE
    /\ outer = [t \in Threads |-> NoOuter]
    /\ nextMeta = 0
    /\ shouldRun = TRUE
    /\ NoPackets
    /\ NoJobs

\* PacketFlags: a bitset, each flag a power of two.
StartOfTrack == 1
HasFlag(flags, f) == (flags \div f) % 2 = 1
WithFlag(flags, f) == IF HasFlag(flags, f) THEN flags ELSE flags + f

\* BaseEncoder::packet: the flags the sinks get, and startOfTrack_ cleared.
\* The packets are logged from the first startTrack on.
packet(flags) ==
    /\ sent' = IF drv.tracks = 0 THEN sent
               ELSE Append(sent, IF drv.startOfTrack_
                                 THEN WithFlag(flags, StartOfTrack)
                                 ELSE flags)
    /\ drv' = [drv EXCEPT !.startOfTrack_ = FALSE]

\* The plugin, inside startTrack, pcmBlock or endTrack, emits a packet: a
\* container header or encoded audio (flags 0) or out-of-band metadata.
plugin ==
    /\ drv.pc \in {"startTrack", "pcmBlock", "endTrack"}
    /\ Len(sent) < TrackPackets
    /\ \E flags \in {0, OutOfBandMetadata} : packet(flags)
    /\ UNCHANGED <<oldVars, ackVars, pubVars, barVars, tailVars>>

\* run calls startTrack: the packets from here on are those of the new track.
CallStartTrack ==
    /\ drv' = [drv EXCEPT !.pc = "startTrack", !.tracks = @ + 1]
    /\ sent' = <<>>

\* run leaves its loop.
Break ==
    /\ drv' = IF drv.track
              THEN [drv EXCEPT !.pc = "endTrack", !.next = "close"]
              ELSE [drv EXCEPT !.pc = "close"]
    /\ UNCHANGED sent

\* BaseEncoder::run, from one call of the plugin or of the PcmBuffer to the
\* next.  What shouldRun(), readMetadata, readPcm and closed() return are
\* inputs.
encoderRun ==
    /\ \/ /\ drv.pc = "run"
          /\ \E go \in BOOLEAN, metadataPtr \in BOOLEAN :
                /\ metadataPtr => drv.tracks < DriverTracks
                /\ IF ~go THEN Break
                   ELSE IF ~metadataPtr
                   THEN drv' = [drv EXCEPT !.pc = "readPcm"] /\ UNCHANGED sent
                   ELSE IF drv.track
                   THEN /\ drv' = [drv EXCEPT !.pc = "endTrack",
                                              !.next = "startTrack"]
                        /\ UNCHANGED sent
                   ELSE CallStartTrack
       \/ /\ drv.pc = "endTrack"
          /\ IF drv.next = "startTrack"
             THEN CallStartTrack
             ELSE drv' = [drv EXCEPT !.pc = "close"] /\ UNCHANGED sent
       \/ /\ drv.pc = "startTrack"
          /\ drv' = [drv EXCEPT !.pc = "readPcm", !.startOfTrack_ = TRUE,
                                !.track = TRUE]
          /\ UNCHANGED sent
       \/ /\ drv.pc = "readPcm"
          /\ \E n \in 0..1, closed \in BOOLEAN :
                IF n > 0
                THEN drv' = [drv EXCEPT !.pc = "pcmBlock"] /\ UNCHANGED sent
                ELSE IF closed THEN Break
                ELSE drv' = [drv EXCEPT !.pc = "run"] /\ UNCHANGED sent
       \/ /\ drv.pc = "pcmBlock"
          /\ drv' = [drv EXCEPT !.pc = "run"]
          /\ UNCHANGED sent
       \/ /\ drv.pc = "close"
          /\ drv' = [drv EXCEPT !.pc = "done"]
          /\ UNCHANGED sent
    /\ UNCHANGED <<oldVars, ackVars, pubVars, barVars, tailVars>>

InitEncoder ==
    /\ Quiet
    /\ drv = NoDriver
    /\ sent = <<>>
    /\ NoAcks
    /\ NoPublisher
    /\ NoTail
    /\ NoBarrier

NextEncoder ==
    \/ encoderRun
    \/ plugin

SpecEncoder == InitEncoder /\ [][NextEncoder]_vars

\* C21: of the packets of a track, those the plugin emits during startTrack
\* included, the first carries StartOfTrack and no later one does.
C21_StartOfTrackOnFirst ==
    \A i \in 1..Len(sent) : HasFlag(sent[i], StartOfTrack) <=> i = 1

\* ------------------------------------------------------------ acknowledgements
\* The tracks here have no PCM: the decoder jobs only announce them.
NO_ENCODER == -1

\* Publisher::acknowledgeDecoderCommand, acknowledgeEncoderCommand: the event
\* handed to push_.
CommandAcknowledgeEvent(encoderIndex, command) ==
    [encoderIndex |-> encoderIndex, command |-> command]

bufFull_(b) == (b.songHead_ + 1) % SongChanges = b.songTail_

bufEmpty_Never(b) == FALSE
bufEmpty_(b) == b.songHead_ = b.songTail_

\* PcmSplitter::metadata, up to its first writeMetadata: the decoder
\* acknowledgement is pushed.
metadata ==
    /\ dec.pc = "idle"
    /\ dec.next < Commands
    /\ acks' = Append(acks, CommandAcknowledgeEvent(NO_ENCODER, dec.next))
    /\ dec' = [pc |-> "writeMetadata", next |-> dec.next + 1,
               command |-> dec.next, i |-> 0]
    /\ UNCHANGED <<oldVars, drvVars, pubVars, barVars, tailVars, bufs>>

\* writeMetadata of buffer dec.i returns: on to the next of buffers_.
NextBuffer ==
    dec' = IF dec.i + 1 \in Buffers
           THEN [dec EXCEPT !.pc = "writeMetadata", !.i = @ + 1]
           ELSE [dec EXCEPT !.pc = "idle", !.command = -1, !.i = 0]

\* The row goes to songHead_ of buffer dec.i.
BufWriteRow ==
    LET b == bufs[dec.i] IN
    bufs' = [bufs EXCEPT ![dec.i] =
               [b EXCEPT !.songChanges_[b.songHead_] =
                             [command |-> dec.command, metadata |-> TRUE,
                              pcmBytes |-> 0],
                         !.songHead_ = (b.songHead_ + 1) % SongChanges]]

\* PcmBuffer::writeMetadata on buffer dec.i.  Whether try_lock_for gets the
\* mutex within its second is an input.
bufWriteMetadata ==
    /\ \/ /\ dec.pc = "writeMetadata"
          /\ IF bufs[dec.i].closed_
             THEN NextBuffer /\ UNCHANGED bufs
             ELSE IF bufFull_(bufs[dec.i])
             THEN dec' = [dec EXCEPT !.pc = "sleep"] /\ UNCHANGED bufs
             ELSE BufWriteRow /\ NextBuffer
       \/ /\ dec.pc = "sleep"
          /\ \E locked \in BOOLEAN :
                IF locked /\ ~bufFull_(bufs[dec.i])
                THEN BufWriteRow /\ NextBuffer
                ELSE NextBuffer /\ UNCHANGED bufs
    /\ UNCHANGED <<oldVars, drvVars, pubVars, barVars, tailVars, acks>>

\* readMetadata that leaves a track's remaining PCM out of its test.
readMetadataOf_IgnoresPcmLeft(subindex, b) ==
    LET index == b.songTail_ IN
    IF bufEmpty_(b)
    THEN [buf |-> b, ret |-> FALSE, pushed |-> <<>>]
    ELSE [buf |-> [b EXCEPT
                     !.songTail_ = (index + 1) % SongChanges,
                     !.pcmLeft_ = b.songChanges_[index].pcmBytes,
                     !.songChanges_[index].pcmBytes = 0,
                     !.songChanges_[index].metadata = FALSE],
          ret |-> b.songChanges_[index].metadata,
          pushed |-> <<CommandAcknowledgeEvent(
                         subindex, b.songChanges_[index].command)>>]

\* PcmBuffer::readMetadata on buffer b, whose subindex_ is subindex: the
\* buffer after the call, the pointer returned (FALSE: empty_) and the events
\* handed to the publisher.
readMetadataOf(subindex, b) ==
    LET index == b.songTail_ IN
    IF bufEmpty_(b) \/ b.pcmLeft_ # 0
    THEN [buf |-> b, ret |-> FALSE, pushed |-> <<>>]
    ELSE [buf |-> [b EXCEPT
                     !.songTail_ = (index + 1) % SongChanges,
                     !.pcmLeft_ = b.songChanges_[index].pcmBytes,
                     !.songChanges_[index].pcmBytes = 0,
                     !.songChanges_[index].metadata = FALSE],
          ret |-> b.songChanges_[index].metadata,
          pushed |-> <<CommandAcknowledgeEvent(
                         subindex, b.songChanges_[index].command)>>]

\* PcmBuffer::readMetadata called by the encoder of buffer i.
bufReadMetadata(i) ==
    LET r == readMetadataOf(i, bufs[i]) IN
    /\ bufs' = [bufs EXCEPT ![i] = r.buf]
    /\ acks' = acks \o r.pushed
    /\ UNCHANGED <<oldVars, drvVars, pubVars, barVars, tailVars, dec>>

\* The bytes credited to buffer b: pcm_left and the rows' pcmBytes.
RECURSIVE BufRowBytes(_, _)
BufRowBytes(b, k) ==
    IF k < 0 THEN 0 ELSE b.songChanges_[k].pcmBytes + BufRowBytes(b, k - 1)

BufCredited(b) == b.pcmLeft_ + BufRowBytes(b, SongChanges - 1)

\* PcmBuffer::writePcm on buffer i, from the point where pcm_ has admitted
\* written bytes: they are credited to the newest row or to pcm_left.  The
\* ring pcm_ is not modelled here; it holds no more than PcmBufferSize bytes.
bufWritePcm(i) ==
    LET b == bufs[i] IN
    /\ ~b.closed_
    /\ \E written \in 1..(MaxFrames * BytesPerFrame) :
          /\ BufCredited(b) + written <= PcmBufferSize
          /\ IF b.songHead_ # b.songTail_
             THEN LET index == IF b.songHead_ = 0 THEN SongChanges - 1
                                                  ELSE b.songHead_ - 1 IN
                  bufs' = [bufs EXCEPT
                             ![i].songChanges_[index].pcmBytes = @ + written]
             ELSE bufs' = [bufs EXCEPT ![i].pcmLeft_ = @ + written]
    /\ UNCHANGED <<oldVars, drvVars, pubVars, barVars, tailVars, dec, acks>>

\* PcmBuffer::readPcm on buffer i when it has whole frames to hand out.
bufReadPcm(i) ==
    LET canRead == FrameAligned(Min(bufs[i].pcmLeft_, EncoderBuffer)) IN
    /\ canRead > 0
    /\ bufs' = [bufs EXCEPT ![i].pcmLeft_ = @ - canRead]
    /\ UNCHANGED <<oldVars, drvVars, pubVars, barVars, tailVars, dec, acks>>

\* PcmBuffer::close
bufClose(i) ==
    /\ ~bufs[i].closed_
    /\ bufs' = [bufs EXCEPT ![i].closed_ = TRUE]
    /\ UNCHANGED <<oldVars, drvVars, pubVars, barVars, tailVars, dec, acks>>

InitAcks ==
    /\ Quiet
    /\ NoDrivers
    /\ bufs = [i \in Buffers |-> NoBuf]
    /\ dec = NoDec
    /\ acks = <<>>
    /\ NoPublisher
    /\ NoTail
    /\ NoBarrier

NextAcks ==
    \/ metadata
    \/ bufWriteMetadata
    \/ \E i \in Buffers : bufReadMetadata(i)
    \/ \E i \in Buffers : bufClose(i)

SpecAcks == InitAcks /\ [][NextAcks]_vars

\* The same with PCM: the decoder's blocks are credited and the encoders
\* read them.
NextAcksPcm ==
    \/ metadata
    \/ bufWriteMetadata
    \/ \E i \in Buffers :
          \/ bufReadMetadata(i)
          \/ bufClose(i)
          \/ bufWritePcm(i)
          \/ bufReadPcm(i)

SpecAcksPcm == InitAcks /\ [][NextAcksPcm]_vars

\* ------------------------------------------------------------ acknowledgement claims
\* Where event e stands in acks.
Pushed(e) == {k \in 1..Len(acks) : acks[k] = e}

\* The commands that have a row, read or not, in buffer i.
RowCommands(i) ==
    {bufs[i].songChanges_[k].command : k \in 0..(SongChanges - 1)} \ {-1}

AcksInOrder ==
    /\ \A c \in 0..(Commands - 1) :
          Cardinality(Pushed(CommandAcknowledgeEvent(NO_ENCODER, c))) =
              IF c < dec.next THEN 1 ELSE 0
    /\ \A i \in Buffers : \A c \in RowCommands(i) :
          Pushed(CommandAcknowledgeEvent(NO_ENCODER, c)) # {}
    /\ \A k \in 1..Len(acks) :
          acks[k].encoderIndex # NO_ENCODER =>
              /\ acks[k].encoderIndex \in Buffers
              /\ acks[k].command \in 0..(Commands - 1)
              /\ Pushed(acks[k]) = {k}
              /\ \E j \in 1..(k - 1) :
                    acks[j] = CommandAcknowledgeEvent(NO_ENCODER,
                                                      acks[k].command)

\* An encoder acknowledgement is pushed by the step of readMetadata that takes
\* the command's row off the queue of that encoder's buffer.
AckOnDequeue ==
    acks' # acks /\ acks'[Len(acks')].encoderIndex # NO_ENCODER =>
        LET e == acks'[Len(acks')]
            b == bufs[e.encoderIndex]
        IN  /\ ~bufEmpty_(b)
            /\ b.songChanges_[b.songTail_].metadata
            /\ b.songChanges_[b.songTail_].command = e.command
            /\ bufs'[e.encoderIndex].songTail_ =
                   (b.songTail_ + 1) % SongChanges

\* C22: one decoder acknowledgement per metadata() call, pushed before the
\* command's row is written to any buffer; the acknowledgement of encoder i
\* is pushed only as readMetadata of buffer i takes the command's row, after
\* the decoder's acknowledgement, and at most once per row and encoder.
C22_AcksFollowTheStages == []AcksInOrder /\ [][AckOnDequeue]_vars

\* All commands announced, the first acknowledged by the decoder and by both
\* encoders, and the last one's row dropped by a full buffer.
C22_Witness ==
    /\ dec.next = Commands
    /\ dec.pc = "idle"
    /\ \A i \in Buffers : Pushed(CommandAcknowledgeEvent(i, 0)) # {}
    /\ \E i \in Buffers : Commands - 1 \notin RowCommands(i)
    /\ \A i \in Buffers : ~bufs[i].closed_

\* ------------------------------------------------------------ publish queue
\* One PublishQueue: thread "w" stands for the stages that push events,
\* thread "r" runs PublishQueue::run and thread "c" is the server, which closes
\* the queue.
pubRest == <<pcmLeft_, songChanges_, songHead_, songTail_, pcmClosed_, skip_,
             mutex_, hasPcm_, nextMeta, metaLog, enc, pktVars, jobVars,
             drvVars, ackVars, barVars, tailVars>>

\* Publisher::push_ and PublishQueue::push: putNoWait of the event, its result
\* not looked at; an event the ring did not take is gone.
push(t) ==
    \/ /\ t = "w"
       /\ pc[t] = "idle"
       /\ nextVal < Events
       /\ outer' = [outer EXCEPT ![t] = [NoOuter EXCEPT !.op = "push"]]
       /\ call' = [call EXCEPT ![t] = RingCall("putNoWait", 1)]
       /\ Goto(t, Entry("putNoWait"))
       /\ UNCHANGED <<ringVars, histVars, pubRest, shouldRun, pubVars>>
    \/ /\ pc[t] = "ret"
       /\ outer[t].op = "push"
       /\ nextVal' = IF call[t].ret = 0 THEN nextVal + 1 ELSE nextVal
       /\ call' = [call EXCEPT ![t] = NoCall]
       /\ Finish(t)
       /\ UNCHANGED <<ringVars, pending, workload, pubRest, shouldRun,
                      pubVars>>

\* convertEvent: an acknowledgement with a command is serialised.
convertEvent(e) == e # -1

\* PublishQueue::run
publishRun(t) ==
    \/ /\ t = "r"
       /\ pc[t] = "idle"
       /\ IF shouldRun
          THEN /\ outer' = [outer EXCEPT ![t] =
                              [NoOuter EXCEPT !.op = "publishRun"]]
               /\ call' = [call EXCEPT ![t] = RingCall("get", 1)]
               /\ Goto(t, "get")
          ELSE /\ Goto(t, "done")
               /\ UNCHANGED <<outer, call>>
       /\ UNCHANGED <<ringVars, histVars, pubRest, shouldRun, pubVars>>
    \/ /\ pc[t] = "ret"
       /\ outer[t].op = "publishRun"
       /\ call' = [call EXCEPT ![t] = NoCall]
       /\ outer' = [outer EXCEPT ![t] = NoOuter]
       /\ IF call[t].ret = 0
          THEN Goto(t, "done") /\ UNCHANGED pubVars
          ELSE /\ Goto(t, "idle")
               /\ delivered' = IF convertEvent(event)
                               THEN Append(delivered, event) ELSE delivered
               /\ event' = -1
       /\ UNCHANGED <<ringVars, histVars, pubRest, shouldRun>>

\* Publisher::close, called by Server::run with the encoders and brocas
\* joined, or by Server::quit, with shouldRun() false.
publisherClose(t) ==
    /\ t = "c"
    /\ pc[t] = "idle"
    /\ \E signal \in BOOLEAN : shouldRun' = ~signal
    /\ Goto(t, "close")
    /\ UNCHANGED <<ringVars, call, histVars, pubRest, outer, pubVars>>

\* A step of a ring operation on events_; the element get() moves out of the
\* ring is run's event.
PublishRingStep(t) ==
    /\ \/ get(t)
       \/ writePartial(t)
       \/ close(t)
    /\ event' = IF tail_' # tail_ THEN buffer_[tail_] ELSE event
    /\ UNCHANGED <<pcmVars, pktVars, jobVars, drvVars, ackVars, barVars, tailVars,
                   delivered>>

InitPublisher ==
    /\ size_ = EventBufferSize
    /\ buffer_ = [i \in 0..EventBufferSize |-> -1]
    /\ head_ = 0
    /\ tail_ = 0
    /\ closed_ = FALSE
    /\ waitToRead_ = {}
    /\ waitToWrite_ = {}
    /\ pc = [t \in Threads |-> "idle"]
    /\ call = [t \in Threads |-> NoCall]
    /\ nextVal = 0
    /\ pending = <<>>
    /\ workload = "publish"
    /\ InitPcmBuffer
    /\ skip_ = TRUE
    /\ outer = [t \in Threads |-> NoOuter]
    /\ nextMeta = 0
    /\ shouldRun = TRUE
    /\ NoPackets
    /\ NoJobs
    /\ NoDrivers
    /\ NoAcks
    /\ NoPublisher
    /\ NoTail
    /\ NoBarrier

NextPublisher ==
    \E t \in Threads :
        \/ push(t)
        \/ publishRun(t)
        \/ publisherClose(t)
        \/ PublishRingStep(t)

SpecPublisher == InitPublisher /\ [][NextPublisher]_vars

\* ------------------------------------------------------------ publish queue claims
\* The pusher is never parked, and what has been delivered are events that
\* were pushed, each once, in the order of their pushes.
DeliveredInOrder ==
    /\ "w" \notin waitToRead_ \cup waitToWrite_
    /\ \A k \in 1..Len(delivered) :
          /\ delivered[k] \in 0..(nextVal - 1)
          /\ k > 1 => delivered[k - 1] < delivered[k]

\* The step of putNoWait that holds the lock: a full ring stays as it is,
\* any other gets the event at head_.
PushOrDrop ==
    pc["w"] = "writePartial" /\ pc'["w"] # "writePartial" =>
        IF lockedToRead_ = size_
        THEN /\ UNCHANGED <<buffer_, head_, tail_>>
             /\ call'["w"].ret = 0
        ELSE /\ buffer_' = [buffer_ EXCEPT ![head_] = nextVal]
             /\ head_' = (head_ + 1) % BufLen
             /\ tail_' = tail_
             /\ Contents' = Append(Contents, nextVal)

RECURSIVE Pow2(_)
Pow2(n) == IF n = 0 THEN 1 ELSE 2 * Pow2(n - 1)

\* numeric_limits<T>::max() & ~(numeric_limits<T>::max() >> 1): the top bit
CROSSOVER == Pow2(TokenBits - 1)

\* isAhead_: T lr = static_cast<T>(lhs - rhs); return lr < CROSSOVER
isAhead_(lhs, rhs) == (lhs - rhs) % Pow2(TokenBits) < CROSSOVER

barRest == <<oldVars, drvVars, ackVars, pubVars, tailVars>>

\* sync returns.
SyncReturn(a) ==
    syn' = [syn EXCEPT ![a].pc = "idle", ![a].returned = syn[a].round]

\* The last caller to leave resets visited_ and forgets queued_.
Leave_KeepQueued(a, queued, visited) ==
    /\ IF visited + 1 >= queued
       THEN visited_' = 0 /\ queued_' = queued
       ELSE visited_' = visited + 1 /\ queued_' = queued
    /\ SyncReturn(a)

\* The end of sync, reached with queued_ >= listeners_: queued and visited are
\* the counters as they stand, the caller included in queued.
Leave(a, queued, visited) ==
    /\ IF visited + 1 >= queued
       THEN visited_' = 0 /\ queued_' = 0
       ELSE visited_' = visited + 1 /\ queued_' = queued
    /\ SyncReturn(a)

\* The caller is counted in queued_, then wakes everybody or waits.
Enqueue(a, queued, visited, woken) ==
    IF queued + 1 >= listeners_
    THEN /\ barrier_' = {}
         /\ Leave(a, queued + 1, visited)
    ELSE /\ queued_' = queued + 1
         /\ visited_' = visited
         /\ barrier_' = (IF woken THEN {} ELSE barrier_) \cup {a}
         /\ syn' = [syn EXCEPT ![a].pc = "wait"]

\* An encoder calls sync at a track change.  It has seen every track change
\* or missed one: the next round is one or two after its last.
callSync(a) ==
    /\ syn[a].pc = "idle"
    /\ \E step \in 1..2 :
          /\ syn[a].round + step <= Rounds
          /\ syn' = [syn EXCEPT
                       ![a].pc = "sync",
                       ![a].round = @ + step,
                       ![a].token = (syn[a].round + step) % Pow2(TokenBits)]
    /\ UNCHANGED <<barRest, listeners_, queued_, visited_, token_, barrier_,
                   freed>>

\* Barrier::sync: from the lock to the wait or the return, and from the
\* wake-up to the wait again or the return.
sync(a) ==
    LET token == syn[a].token IN
    /\ \/ /\ syn[a].pc = "sync"
          /\ IF queued_ = 0
             THEN /\ token_' = token
                  /\ Enqueue(a, queued_, visited_, FALSE)
             ELSE IF token_ = token
             THEN /\ UNCHANGED token_
                  /\ Enqueue(a, queued_, visited_, FALSE)
             ELSE IF isAhead_(token_, token)
             THEN /\ token_' = token
                  /\ Enqueue(a, 0, 0, TRUE)
             ELSE /\ SyncReturn(a)
                  /\ UNCHANGED <<queued_, visited_, token_, barrier_>>
       \/ /\ syn[a].pc = "wait"
          /\ a \notin barrier_
          /\ IF ~(queued_ >= listeners_ \/ token # token_)
             THEN /\ barrier_' = barrier_ \cup {a}
                  /\ UNCHANGED <<queued_, visited_, syn>>
             ELSE IF token # token_
             THEN /\ SyncReturn(a)
                  /\ UNCHANGED <<queued_, visited_, barrier_>>
             ELSE /\ Leave(a, queued_, visited_)
                  /\ UNCHANGED barrier_
          /\ UNCHANGED token_
    /\ UNCHANGED <<barRest, listeners_, freed>>

\* A barrier with a BarrierHolder made for every listener.
InitBarrier ==
    /\ Quiet
    /\ NoDrivers
    /\ NoAcks
    /\ NoPublisher
    /\ NoTail
    /\ listeners_ = Cardinality(Listeners)
    /\ queued_ = 0
    /\ visited_ = 0
    /\ token_ = 0
    /\ barrier_ = {}
    /\ syn = [a \in Listeners |-> NoSync]
    /\ freed = NotFreed

NextBarrier ==
    \E a \in Listeners :
        \/ callSync(a)
        \/ sync(a)

SpecBarrier == InitBarrier /\ [][NextBarrier]_vars

\* An encoder that has not reached round k yet and can still call sync for it.
CanStillCall(b, k) ==
    /\ syn[b].pc = "idle"
    /\ syn[b].round < k
    /\ syn[b].round + 2 >= k

\* C24: when every listener calls sync with the same token and nobody has
\* called with a newer one, no call returns before every listener has
\* entered.  As a state predicate: an encoder is back from sync for round k,
\* k is the newest round anybody has called for, and those that have not
\* called for k yet are still to do so; then there are none of those.
C24_NoReturnBeforeAllEntered ==
    \A a \in Listeners :
        LET k == syn[a].round IN
        ( /\ syn[a].pc = "idle"
          /\ k > 0
          /\ syn[a].returned = k
          /\ \A b \in Listeners : syn[b].round = k \/ CanStillCall(b, k) )
        => \A b \in Listeners : syn[b].round = k

TokenMovesForward == token_' # token_ => isAhead_(token_', token_)

\* C25: the barrier's token only moves forward in the cyclic order: a step
\* that changes token_ changes it to a token that is ahead of the old one.
C25_TokenOnlyMovesForward == [][TokenMovesForward]_vars

\* --------------------------------------------------- barrier, shut down
\* Barrier::free without its notify_all.
free_NoWake ==
    /\ ~freed.called
    /\ listeners_' = 0
    /\ freed' = [called |-> TRUE, blocked |-> barrier_]
    /\ UNCHANGED <<barRest, queued_, visited_, token_, barrier_, syn>>

\* Barrier::free, called by the server once.
free ==
    /\ ~freed.called
    /\ listeners_' = 0
    /\ barrier_' = {}
    /\ freed' = [called |-> TRUE, blocked |-> barrier_]
    /\ UNCHANGED <<barRest, queued_, visited_, token_, syn>>

\* Barrier::decrement_, called when an encoder is destroyed with its
\* BarrierHolder: the server destroys its encoders after their threads are
\* joined, which is after it has freed the barriers.
decrement_(a) ==
    /\ freed.called
    /\ syn[a].pc = "idle"
    /\ listeners_' = IF listeners_ # 0 THEN listeners_ - 1 ELSE listeners_
    /\ barrier_' = {}
    /\ syn' = [syn EXCEPT ![a].pc = "none"]
    /\ UNCHANGED <<barRest, queued_, visited_, token_, freed>>

\* The round the shutdown is followed from.
LateRound == Rounds - 3

\* The barrier some time into the run, between two track changes: every
\* encoder is back from sync for round LateRound and the counters are reset.
InitBarrierFree ==
    /\ Quiet
    /\ NoDrivers
    /\ NoAcks
    /\ NoPublisher
    /\ NoTail
    /\ listeners_ = Cardinality(Listeners)
    /\ queued_ = 0
    /\ visited_ = 0
    /\ token_ = LateRound % Pow2(TokenBits)
    /\ barrier_ = {}
    /\ syn = [a \in Listeners |->
                [pc |-> "idle", token |-> LateRound % Pow2(TokenBits),
                 round |-> LateRound, returned |-> LateRound]]
    /\ freed = NotFreed

NextBarrierFree ==
    \/ \E a \in Listeners :
          \/ callSync(a)
          \/ sync(a)
          \/ decrement_(a)
    \/ free

\* The barrier with its shutdown.  A thread that can run does run.
SpecBarrierFree ==
    /\ InitBarrierFree
    /\ [][NextBarrierFree]_vars
    /\ \A a \in Listeners : WF_vars(sync(a))

\* After free nobody is counted as a listener and nobody is parked.
FreedBarrier == freed.called => listeners_ = 0 /\ barrier_ = {}

\* After free a call of sync returns in its first step, without waiting.
NoWaitAfterFree ==
    \A a \in Listeners :
        (freed.called /\ syn[a].pc = "sync" /\ syn'[a] # syn[a])
        => syn'[a].pc = "idle"

\* C26: free sets listeners_ to 0 and wakes everyone: every thread that was
\* blocked in sync when free was called returns, and every later call of
\* sync returns without blocking.
C26_FreeReleasesEveryone ==
    /\ []FreedBarrier
    /\ [][NoWaitAfterFree]_vars
    /\ \A a \in Listeners :
          (a \in freed.blocked /\ syn[a].pc = "wait") ~> (syn[a].pc # "wait")

\* free found two encoders parked, which were then in the same round (they
\* had the same token, and from LateRound on no token comes round again).
\* Both have returned, and one of them has since called sync for a later
\* round and is back.
C26_Witness ==
    /\ freed.called
    /\ Cardinality(freed.blocked) = 2
    /\ \A a \in freed.blocked :
          /\ syn[a].pc = "idle"
          /\ syn[a].returned = syn[a].round
    /\ \E a, b \in freed.blocked : syn[a].round > syn[b].round

\* ------------------------------------------------------------- brocas
\* One encoder and its brocas.  Each broca reads its own PacketRingBuffer,
\* which is counted here in whole packets: writePacket and readPacket move a
\* header and its payload, and block as writeFull and readFull do.
BrocaSet == {Brocas[i] : i \in 1..Len(Brocas)}

brRest == <<ringVars, pc, call, histVars, pcmLeft_, songChanges_, songHead_,
            songTail_, pcmClosed_, skip_, mutex_, hasPcm_, outer, nextMeta,
            metaLog, enc, pktVars, jobVars, drvVars, ackVars, pubVars,
            barVars, srvVars, lateVars>>

\* BaseEncoder::run has a packet to emit: a call of packet().
packetStart ==
    /\ alive
    /\ shouldRun
    /\ emit.pc = "idle"
    /\ emit.n < SinkPackets
    /\ emit' = [emit EXCEPT !.pc = "write", !.i = 1]
    /\ UNCHANGED <<brRest, shouldRun, broca, sink, brocaCounter, acquired,
                   alive>>

\* BaseEncoder::packet: sink->writePacket for the next of sinks_.  It waits
\* while that ring is full and open; a closed ring takes nothing.
packetToSinks ==
    /\ alive
    /\ emit.pc = "write"
    /\ LET b == Brocas[emit.i] IN
       /\ sink[b].closed_ \/ sink[b].fill < SinkSize
       /\ sink' = IF sink[b].closed_ THEN sink
                  ELSE [sink EXCEPT ![b].fill = @ + 1]
    /\ emit' = IF emit.i = Len(Brocas)
               THEN [pc |-> "idle", i |-> 1, n |-> emit.n + 1]
               ELSE [emit EXCEPT !.i = @ + 1]
    /\ UNCHANGED <<brRest, shouldRun, broca, brocaCounter, acquired, alive>>

\* BaseEncoder::close at the end of run, when the PCM has ended.
encoderClose ==
    /\ alive
    /\ emit.pc = "idle"
    /\ emit' = [emit EXCEPT !.pc = "closed"]
    /\ sink' = [b \in BrocaSet |-> [sink[b] EXCEPT !.closed_ = TRUE]]
    /\ UNCHANGED <<brRest, shouldRun, broca, brocaCounter, acquired, alive>>

\* Server::quit after a signal: shouldRun() is false from here on, and
\* encoder->close() closes the sinks.
brocaQuit ==
    /\ alive
    /\ shouldRun
    /\ shouldRun' = FALSE
    /\ sink' = [b \in BrocaSet |-> [sink[b] EXCEPT !.closed_ = TRUE]]
    /\ UNCHANGED <<brRest, broca, brocaCounter, acquired, emit, alive>>

\* FileBroca::runImpl, one step: the loop test and readPacket, or the write
\* of the packet to the file, which fails or not.
runImpl(b) ==
    /\ alive
    /\ \/ /\ broca[b].pc = "run"
          /\ IF ~shouldRun
             THEN /\ broca' = [broca EXCEPT ![b].pc = "returned",
                                            ![b].exit = "stopped"]
                  /\ UNCHANGED sink
             ELSE IF sink[b].fill > 0
             THEN /\ sink' = [sink EXCEPT ![b].fill = @ - 1]
                  /\ broca' = [broca EXCEPT ![b].pc = "write"]
             ELSE /\ sink[b].closed_
                  /\ broca' = [broca EXCEPT ![b].pc = "returned",
                                            ![b].exit = "eof"]
                  /\ UNCHANGED sink
       \/ /\ broca[b].pc = "write"
          /\ \E bad \in BOOLEAN :
                broca' = IF bad
                         THEN [broca EXCEPT ![b].pc = "returned",
                                            ![b].exit = "fatal"]
                         ELSE [broca EXCEPT ![b].pc = "run",
                                            ![b].got = @ + 1]
          /\ UNCHANGED sink
    /\ UNCHANGED <<brRest, shouldRun, brocaCounter, acquired, emit, alive>>

\* Leaving BaseBroca::run without destroying its BrocaWatchdog.
ExitReleases_OnlyAtEnd(exit) == exit \in {"eof", "stopped"}

\* BaseBroca::run declares its BrocaWatchdog before it calls runImpl, so
\* every way out of runImpl destroys it.
ExitReleases(exit) == TRUE

\* BaseBroca::run returns after runImpl has.
brocaExit(b) ==
    /\ alive
    /\ broca[b].pc = "returned"
    /\ IF ExitReleases(broca[b].exit)
       THEN /\ broca' = [broca EXCEPT ![b].pc = "ended",
                                      ![b].released = @ + 1]
            /\ brocaCounter' = brocaCounter + 1
       ELSE /\ broca' = [broca EXCEPT ![b].pc = "ended"]
            /\ UNCHANGED brocaCounter
    /\ UNCHANGED <<brRest, shouldRun, sink, acquired, emit, alive>>

\* An exception leaves runImpl, BaseBroca::run and the thread's function
\* (startBroca has no handler): std::terminate.  Whether the stack is unwound
\* first, and ~BrocaWatchdog run, is up to the implementation.
brocaThrow(b) ==
    /\ alive
    /\ broca[b].pc \in {"run", "write"}
    /\ \E unwound \in BOOLEAN :
          IF unwound
          THEN /\ broca' = [broca EXCEPT ![b].pc = "ended",
                                         ![b].exit = "throw",
                                         ![b].released = @ + 1]
               /\ brocaCounter' = brocaCounter + 1
          ELSE /\ broca' = [broca EXCEPT ![b].pc = "ended",
                                         ![b].exit = "throw"]
               /\ UNCHANGED brocaCounter
    /\ alive' = FALSE
    /\ UNCHANGED <<brRest, shouldRun, sink, acquired, emit>>

\* Server::run: brocaCounter.acquire(), once per broca.
acquire ==
    /\ alive
    /\ acquired < Len(Brocas)
    /\ brocaCounter > 0
    /\ brocaCounter' = brocaCounter - 1
    /\ acquired' = acquired + 1
    /\ UNCHANGED <<brRest, shouldRun, broca, sink, emit, alive>>

\* The encoder and its brocas with their threads started.
InitBroca ==
    /\ Quiet
    /\ NoDrivers
    /\ NoAcks
    /\ NoPublisher
    /\ NoBarrier
    /\ NoServer
    /\ NoLate
    /\ broca = [b \in BrocaSet |-> [NoBroca EXCEPT !.pc = "run"]]
    /\ sink = [b \in BrocaSet |-> NoSink]
    /\ brocaCounter = 0
    /\ acquired = 0
    /\ emit = NoEmit
    /\ alive = TRUE

NextBroca ==
    \/ packetStart
    \/ packetToSinks
    \/ encoderClose
    \/ brocaQuit
    \/ acquire
    \/ \E b \in BrocaSet :
          \/ runImpl(b)
          \/ brocaThrow(b)
          \/ brocaExit(b)

\* The threads run when they can; nothing makes the PCM end, a signal
\* arrive or an exception fly.
SpecBroca ==
    /\ InitBroca
    /\ [][NextBroca]_vars
    /\ WF_vars(packetStart)
    /\ WF_vars(packetToSinks)
    /\ \A b \in BrocaSet : WF_vars(runImpl(b)) /\ WF_vars(brocaExit(b))

Ended(b) == broca[b].pc = "ended"

RECURSIVE SumReleased(_)
SumReleased(B) ==
    IF B = {} THEN 0
    ELSE LET b == CHOOSE x \in B : TRUE
         IN  broca[b].released + SumReleased(B \ {b})

Running == alive /\ shouldRun /\ emit.pc # "closed"

\* C28: after a broca has ended on a fatal sink error the pipeline goes on
\* without it: unless the pipeline is shut down or another broca leaves its
\* loop too, the encoder goes on to emit all its packets and the other
\* brocas receive them all.
C28_PipelineContinues ==
    \A b \in BrocaSet :
        (broca[b].exit = "fatal")
        ~> ( \/ ~Running
             \/ \E c \in BrocaSet \ {b} : broca[c].exit # "none"
             \/ /\ emit.n = SinkPackets
                /\ \A c \in BrocaSet \ {b} : broca[c].got = SinkPackets )

\* ------------------------------------------------------------- server
\* Server::run and runServer from the wait for the end of the commands on,
\* with the signal handler, the command reader, the two watchdog threads and
\* the threads that run waits for.  A group of threads leaves its loop once
\* it has been told to (workerExit) unless it is stuck in a call that does not
\* return (hang).
Groups == {"jobs", "encoders", "brocas", "publisher"}

\* The server with its threads started, waiting for outOfCommands_.  steps is
\* history: the steps of the shutdown in the order they were done; cause is
\* what ended the commands.
RunningSrv ==
    [pc |-> "wait", terminating_ |-> FALSE, outOfCommands_ |-> FALSE,
     receivedSignal_ |-> FALSE, quitWatchdog |-> "none",
     exitWatchdog |-> "none", workers |-> [g \in Groups |-> "running"],
     closed |-> {}, tokens |-> 0, steps |-> <<>>, cause |-> "none"]

srvRest == <<ringVars, pc, call, histVars, pcmLeft_, songChanges_, songHead_,
             songTail_, pcmClosed_, skip_, mutex_, hasPcm_, outer, nextMeta,
             metaLog, enc, pktVars, jobVars, drvVars, ackVars, pubVars,
             barVars, brVars, lateVars>>

\* The process is running.
SrvAlive == srv.pc \notin {"none", "exited", "terminated"}

\* exitGracefullyOnSignal, the handler of SIGHUP, SIGINT and SIGTERM.
\* shouldRun() is false once terminating_ is set.
exitGracefullyOnSignal ==
    /\ SrvAlive
    /\ ~srv.receivedSignal_
    /\ srv' = [srv EXCEPT !.terminating_ = TRUE, !.outOfCommands_ = TRUE,
                          !.receivedSignal_ = TRUE,
                          !.cause = IF srv.outOfCommands_ THEN @
                                    ELSE "signal"]
    /\ shouldRun' = FALSE
    /\ UNCHANGED srvRest

\* Server::readCommands_ reads a quit command: noMoreCommands(), close().
readCommands_ ==
    /\ SrvAlive
    /\ ~srv.outOfCommands_
    /\ srv' = [srv EXCEPT !.outOfCommands_ = TRUE, !.cause = "quit",
                          !.closed = @ \cup {"commands"}]
    /\ UNCHANGED <<srvRest, shouldRun>>

\* Server::quit: pcm_->close(), encoder->close() for each, publisher_->close().
QuitSteps == <<"pcmClose", "encoderClose", "publisherClose">>

QuitCloses == {"pcm", "sinks", "publisher"}

\* The main thread goes from one step of Server::run to the next.
Main(from, to, step) ==
    /\ srv.pc = from
    /\ srv' = [srv EXCEPT !.pc = to, !.steps = @ \o step]

\* A step of Server::run that closes something.
MainClose(from, to, step, what) ==
    /\ srv.pc = from
    /\ srv' = [srv EXCEPT !.pc = to, !.steps = @ \o step,
                          !.closed = @ \cup what]

\* A step of Server::run that waits for the threads of a group to exit.
MainJoin(from, to, step, g) ==
    /\ srv.workers[g] = "exited"
    /\ Main(from, to, step)

\* Server::run after its threads are started, and runServer after it.
serverRun ==
    /\ \/ /\ srv.pc = "wait"
          /\ srv.outOfCommands_
          /\ srv' = [srv EXCEPT
                       !.terminating_ = @ \/ srv.receivedSignal_,
                       !.pc = IF srv.receivedSignal_ THEN "quit"
                              ELSE "quitWatchdog"]
          /\ shouldRun' = (shouldRun /\ ~srv.receivedSignal_)
       \/ /\ UNCHANGED shouldRun
          /\ \/ /\ srv.pc = "quitWatchdog"
                /\ srv' = [srv EXCEPT !.pc = "jobsClose",
                                      !.quitWatchdog = "waiting"]
             \/ MainClose("jobsClose", "jobsStop", <<"jobsClose">>, {"jobs"})
             \/ MainJoin("jobsStop", "pcmClose", <<"jobsStop">>, "jobs")
             \/ MainClose("pcmClose", "free", <<"pcmClose">>, {"pcm"})
             \/ MainClose("free", "joinEncoders", <<"free">>, {"barriers"})
             \/ MainJoin("joinEncoders", "acquire", <<"joinEncoders">>,
                         "encoders")
             \/ /\ srv.tokens > 0
                /\ srv.pc = "acquire"
                /\ srv' = [srv EXCEPT !.pc = "joinBrocas",
                                      !.tokens = @ - 1,
                                      !.steps = @ \o <<"acquire">>]
             \/ MainJoin("joinBrocas", "publisherClose", <<"joinBrocas">>,
                         "brocas")
             \/ MainClose("publisherClose", "detach", <<"publisherClose">>,
                          {"publisher"})
             \/ /\ srv.pc = "detach"
                /\ srv' = [srv EXCEPT !.pc = "publisherStop"]
             \/ MainClose("quit", "s_jobsStop", QuitSteps, QuitCloses)
             \/ MainJoin("s_jobsStop", "s_joinEncoders", <<"jobsStop">>,
                         "jobs")
             \/ MainJoin("s_joinEncoders", "s_joinBrocas", <<"joinEncoders">>,
                         "encoders")
             \/ MainJoin("s_joinBrocas", "publisherStop", <<"joinBrocas">>,
                         "brocas")
             \/ MainJoin("publisherStop", "returned", <<"publisherStop">>,
                         "publisher")
             \/ /\ srv.pc = "returned"
                /\ srv' = [srv EXCEPT !.pc = "exiting",
                                      !.exitWatchdog = "sleeping"]
             \/ /\ srv.pc = "exiting"
                /\ srv' = [srv EXCEPT !.pc = "exited"]
    /\ UNCHANGED srvRest

\* The quitWatchdog thread of Server::run: quit() once terminating_ is set.
quitWatchdog ==
    /\ SrvAlive
    /\ srv.quitWatchdog = "waiting"
    /\ srv.terminating_
    /\ srv' = [srv EXCEPT !.quitWatchdog = "done",
                          !.steps = @ \o QuitSteps,
                          !.closed = @ \cup QuitCloses]
    /\ UNCHANGED <<srvRest, shouldRun>>

\* The exitWatchdog thread of runServer: std::terminate() after its sleep.
exitWatchdog ==
    /\ SrvAlive
    /\ srv.exitWatchdog = "sleeping"
    /\ srv' = [srv EXCEPT !.exitWatchdog = "fired", !.pc = "terminated"]
    /\ UNCHANGED <<srvRest, shouldRun>>

\* What makes the threads of a group leave their loops: shouldRun() false,
\* or their input closed and used up (for the brocas, the sinks closed by
\* their encoders' run ending or by quit).
ToldToExit(g) ==
    \/ ~shouldRun /\ g # "publisher"
    \/ g = "jobs" /\ "jobs" \in srv.closed
    \/ g = "encoders" /\ "pcm" \in srv.closed
    \/ g = "brocas"
          /\ ("sinks" \in srv.closed \/ srv.workers["encoders"] = "exited")
    \/ g = "publisher" /\ "publisher" \in srv.closed

\* The threads of a group return from their run; the brocas release their
\* token.
workerExit(g) ==
    /\ SrvAlive
    /\ srv.workers[g] = "running"
    /\ ToldToExit(g)
    /\ srv' = [srv EXCEPT !.workers[g] = "exited",
                          !.tokens = IF g = "brocas" THEN @ + 1 ELSE @]
    /\ UNCHANGED <<srvRest, shouldRun>>

\* A thread of a group is stuck in a call that does not return.
hang(g) ==
    /\ SrvAlive
    /\ srv.workers[g] = "running"
    /\ srv' = [srv EXCEPT !.workers[g] = "hung"]
    /\ UNCHANGED <<srvRest, shouldRun>>

InitServer ==
    /\ Quiet
    /\ NoDrivers
    /\ NoAcks
    /\ NoPublisher
    /\ NoBarrier
    /\ NoBrocas
    /\ NoLate
    /\ srv = RunningSrv

NextServer ==
    \/ exitGracefullyOnSignal
    \/ readCommands_
    \/ serverRun
    \/ quitWatchdog
    \/ exitWatchdog
    \/ \E g \in Groups :
          \/ workerExit(g)
          \/ hang(g)

\* Every thread that can run does; signals, quit commands and hangs are up
\* to the world outside.
SpecServer ==
    /\ InitServer
    /\ [][NextServer]_vars
    /\ WF_vars(serverRun)
    /\ WF_vars(quitWatchdog)
    /\ WF_vars(exitWatchdog)
    /\ \A g \in Groups : WF_vars(workerExit(g))

\* The steps of the shutdown that the order below is about.
OrderedSteps ==
    <<"pcmClose", "free", "joinEncoders", "acquire", "joinBrocas",
      "publisherClose", "publisherStop">>

IsOrderedStep(step) == \E i \in 1..Len(OrderedSteps) : OrderedSteps[i] = step

\* C29: on a shutdown started by a signal the server closes the PCM
\* splitter, frees every barrier, joins the encoders, acquires the brocas'
\* tokens, joins the brocas, closes the publisher queues and joins the
\* publisher threads, in this order: when run has returned, these are the
\* steps it has done, each once.
C29_SignalShutdownOrder ==
    (srv.cause = "signal" /\ srv.pc \in {"returned", "exiting", "exited"})
    => SelectSeq(srv.steps, IsOrderedStep) = OrderedSteps

\* C30: a watchdog is started when the terminating flag is set and ends the
\* process if a later step of the shutdown hangs: once terminating_ is set
\* the process ends, by itself or by the watchdog.
C30_WatchdogEndsShutdown ==
    srv.terminating_ ~> (srv.pc \in {"exited", "terminated"})

\* ------------------------------------------------- barrier, more claims
\* A step of sync by a caller who has just taken the lock and finds other
\* callers queued under another token.
OtherToken(a) ==
    /\ syn[a].pc = "sync"
    /\ syn'[a] # syn[a]
    /\ queued_ > 0
    /\ syn[a].token # token_

\* The caller is alone in the queue under its own token, everybody else
\* woken: it waits unless it is the only listener.
AdoptedBy(a) ==
    /\ token_' = syn[a].token
    /\ visited_' = 0
    /\ queued_' = (IF listeners_ > 1 THEN 1 ELSE 0)
    /\ barrier_' \subseteq {a}
    /\ syn'[a].pc = (IF listeners_ > 1 THEN "wait" ELSE "idle")

SentAway(a) ==
    /\ token_' = token_
    /\ queued_' = queued_
    /\ visited_' = visited_
    /\ syn'[a].pc = "idle"

AheadAdoptsBehindLeaves ==
    \A a \in Listeners :
        OtherToken(a) =>
            IF isAhead_(syn[a].token, token_) THEN AdoptedBy(a)
            ELSE SentAway(a)

\* C34: in sync with queued_ > 0 and a token other than the current one, a
\* caller whose token is ahead makes the barrier adopt it, reset queued_ and
\* visited_, wake all waiters and enqueue the caller; a caller whose token
\* is behind returns at once and changes nothing.
C34_AheadAdoptsBehindLeaves == [][AheadAdoptsBehindLeaves]_vars

\* visited_ = queued_ = 0 is one assignment under the lock; the caller that
\* resets at a token change then counts itself in queued_.
ResetTogether ==
    /\ queued_' < queued_ => visited_' = 0 /\ queued_' \in {0, 1}
    /\ visited_' < visited_ => visited_' = 0 /\ queued_' \in {0, 1}

\* C40: in every reachable state of the barrier visited_ <= queued_, and
\* queued_ = 0 implies visited_ = 0: the two counters are only ever reset to
\* zero together.
C40_CountersResetTogether ==
    /\ [](visited_ <= queued_)
    /\ [](queued_ = 0 => visited_ = 0)
    /\ [][ResetTogether]_vars

\* Two of three callers have left the barrier: the third resets the counters.
C40_Witness == visited_ = 2 /\ queued_ = 3

\* An encoder calls sync once per track change, with the tokens 0, 1, 2, ...
\* in this order.
callInOrder(a) ==
    /\ syn[a].pc = "idle"
    /\ syn[a].round < Rounds
    /\ syn' = [syn EXCEPT
                 ![a].pc = "sync",
                 ![a].round = @ + 1,
                 ![a].token = syn[a].round % Pow2(TokenBits)]
    /\ UNCHANGED <<barRest, listeners_, queued_, visited_, token_, barrier_,
                   freed>>

NextBarrierInOrder ==
    \E a \in Listeners :
        \/ callInOrder(a)
        \/ sync(a)

\* Every encoder runs at its own speed, and none stops: it goes through all
\* of its track changes.
SpecBarrierInOrder ==
    /\ InitBarrier
    /\ [][NextBarrierInOrder]_vars
    /\ \A a \in Listeners : WF_vars(sync(a)) /\ WF_vars(callInOrder(a))

\* C39: when every listener calls sync with the tokens 0, 1, 2, ... in
\* increasing order, every call of sync eventually returns, whatever the
\* relative speed of the encoders.
C39_EverySyncReturns ==
    \A a \in Listeners : (syn[a].pc # "idle") ~> (syn[a].pc = "idle")

\* ------------------------------------------------- PCM buffer, more claims
\* The consumer has evaluated readPcm's wait condition to false and is about
\* to block, or is blocked on hasPcm_.
ReadPcmPending == pc["r"] \in {"readPcm_wait", "readPcm_parked"}

\* C36: PcmBuffer::close always turns a pending readPcm into a return: a
\* consumer that is blocked in readPcm, or has just evaluated the wait
\* condition and is about to block, when close runs eventually returns.
C36_CloseEndsReadPcm ==
    (pcmClosed_ /\ ReadPcmPending) ~> ~ReadPcmPending

\* The PCM buffer with Server::quit possible at any time, every thread that
\* can take a step of its program eventually taking one.
SpecPcmQuit ==
    /\ InitPcm
    /\ [][NextPcm]_vars
    /\ \A t \in Threads : WF_vars(PcmStep(t))

\* C31: after a termination signal that arrives while a job is running the
\* threads exit and Server::run, which joins them, returns: once shouldRun()
\* is false and quit is under way with the decoder still at its job, the
\* decoder's call in progress returns and the encoder thread leaves
\* BaseEncoder::run.
C31_SignalEndsThreads ==
    (~shouldRun /\ pc["w"] # "done")
        ~> (pc["r"] = "run_done" /\ outer["w"].op = "none")

\* C38: under the drop policy what writePcm credits is a whole number of
\* frames, so pcm_left reaches 0 at the end of a track and readMetadata
\* eventually returns the next queued row: on a buffer that stays open the
\* encoder driver does not spin on a remainder of less than a frame.
C38_NextRowReturned ==
    /\ [](skip_ /\ pc["w"] = "writePcm_credit"
            => outer["w"].n % BytesPerFrame = 0)
    /\ (skip_ /\ songHead_ # songTail_ /\ ~pcmClosed_)
          ~> (pc["r"] = "readMetadata_notify" \/ pcmClosed_)

\* ------------------------------------------------- readMetadata
\* The rows queued in buffer b, as indices into songChanges_, and the
\* commands they carry.  The decoder numbers its commands in the order it
\* announces them, so the oldest row carries the smallest.
BufQueued(b) ==
    {(b.songTail_ + k) % SongChanges :
        k \in 0..(((b.songHead_ - b.songTail_) % SongChanges) - 1)}

OldestCommand(b) ==
    CHOOSE c \in {b.songChanges_[k].command : k \in BufQueued(b)} :
        \A k \in BufQueued(b) : c <= b.songChanges_[k].command

\* What readMetadata is to do on buffer b with subindex_ i, r being what it
\* did.
ReadMetadataContract(i, b, r) ==
    /\ r.ret <=> (b.pcmLeft_ = 0 /\ BufQueued(b) # {})
    /\ r.ret =>
          /\ BufQueued(r.buf) = BufQueued(b) \ {b.songTail_}
          /\ b.songChanges_[b.songTail_].command = OldestCommand(b)
          /\ r.buf.pcmLeft_ = b.songChanges_[b.songTail_].pcmBytes
          /\ r.pushed = <<[encoderIndex |-> i, command |-> OldestCommand(b)]>>
          /\ r.buf.songHead_ = b.songHead_
          /\ r.buf.closed_ = b.closed_
          /\ \A k \in BufQueued(r.buf) :
                r.buf.songChanges_[k] = b.songChanges_[k]
    /\ ~r.ret => r.buf = b /\ r.pushed = <<>>

\* C33: readMetadata returns a metadata pointer iff pcm_left is 0 and a row
\* is queued; it then takes exactly the oldest row off the queue, sets
\* pcm_left to that row's pcmBytes and publishes one CommandAcknowledge with
\* this encoder's index and the row's command; otherwise it returns empty and
\* changes nothing.
C33_ReadMetadata ==
    \A i \in Buffers :
        ReadMetadataContract(i, bufs[i], readMetadataOf(i, bufs[i]))

\* Both outcomes at hand after both encoders have taken a row: buffer 0 is
\* in the middle of a track with a row queued, buffer 1 has used up its track
\* and its next row comes with PCM.
C33_Witness ==
    /\ \A i \in Buffers : \E k \in 1..Len(acks) : acks[k].encoderIndex = i
    /\ bufs[0].pcmLeft_ > 0
    /\ BufQueued(bufs[0]) # {}
    /\ bufs[1].pcmLeft_ = 0
    /\ BufQueued(bufs[1]) # {}
    /\ bufs[1].songChanges_[bufs[1].songTail_].pcmBytes > 0

\* ------------------------------------------------- command reader
\* Server::readCommands_ with the commands it reads, the job queue it feeds
\* and the acknowledgements the pipeline publishes.  A command is its number
\* (the order it was read in), its cmd and whether the decoder makes a job
\* of its param.
cmdRest == <<ringVars, pc, call, histVars, pcmLeft_, songChanges_, songHead_,
             songTail_, pcmClosed_, skip_, mutex_, hasPcm_, outer, nextMeta,
             metaLog, enc, pktVars, jobVars, drvVars, ackVars, pubVars,
             barVars, brVars, srvVars, shout>>

\* The keys of Server::cmd_, the decoders by name ("quit" is not one).
cmd_ == {"play"}

\* What a command's cmd can be.
CommandNames == cmd_ \cup {"bogus", "quit"}

\* The stages that acknowledge a command, in the order they meet it.
Sources == <<"decoder", "encoder", "broca">>

\* cmd_.find(command.cmd) != cmd_.end()
Resolved_Any(cmd) == TRUE
Resolved(cmd) == cmd \in cmd_

\* The reader about to call nextCommand.  Three fields are history: log
\* holds the commands read, in order (command k is log[k + 1]), added the
\* commands whose job went into jobs_, and published the acknowledgements,
\* each the source and the command.
RunningCommands ==
    [pc |-> "nextCommand", outOfCommands_ |-> FALSE,
     command |-> [id |-> -1, cmd |-> "none", param |-> FALSE],
     jobs_ |-> <<>>, log |-> <<>>, added |-> {}, published |-> {}]

\* while (!outOfCommands_.test()) { command = commandQueue_->nextCommand();
nextCommand ==
    /\ commands.pc = "nextCommand"
    /\ IF commands.outOfCommands_
       THEN commands' = [commands EXCEPT !.pc = "done"]
       ELSE /\ Len(commands.log) < ReaderCommands
            /\ \E cmd \in CommandNames, param \in BOOLEAN :
                  LET command == [id |-> Len(commands.log), cmd |-> cmd,
                                  param |-> param]
                  IN  commands' = [commands EXCEPT
                                     !.pc = "dispatch",
                                     !.log = Append(@, command),
                                     !.command = command]
    /\ UNCHANGED <<cmdRest, shouldRun>>

\* The rest of the loop body of readCommands_.  addJob is jobs_.putMove,
\* which waits for room in jobs_.
dispatchCommand ==
    LET command == commands.command IN
    /\ commands.pc = "dispatch"
    /\ IF commands.outOfCommands_
       THEN commands' = [commands EXCEPT !.pc = "done"]
       ELSE IF command.cmd = "quit" \/ ~shouldRun
       THEN commands' = [commands EXCEPT
                           !.pc = "done", !.outOfCommands_ = TRUE]
       ELSE IF ~Resolved(command.cmd)
       THEN commands' = [commands EXCEPT !.pc = "nextCommand"]
       ELSE IF ~command.param
       THEN \* createJob returns no value
            commands' = [commands EXCEPT !.pc = "nextCommand"]
       ELSE /\ Len(commands.jobs_) < JobQueueSize
            /\ commands' = [commands EXCEPT
                              !.pc = "nextCommand",
                              !.jobs_ = Append(@, command.id),
                              !.added = @ \cup {command.id}]
    /\ UNCHANGED <<cmdRest, shouldRun>>

\* A worker takes the oldest job and runs it: the job announces its track
\* with PcmSplitter::metadata, which publishes the decoder's acknowledgement.
jobRun ==
    /\ commands.pc # "none"
    /\ shouldRun
    /\ commands.jobs_ # <<>>
    /\ commands' = [commands EXCEPT
                      !.jobs_ = Tail(@),
                      !.published = @ \cup {<<Sources[1], Head(commands.jobs_)>>}]
    /\ UNCHANGED <<cmdRest, shouldRun>>

\* The next stage meets the command of a track and acknowledges it:
\* readMetadata of an encoder's buffer, then the broca that reads the
\* command's packet.
acknowledgeCommand ==
    /\ commands.pc # "none"
    /\ \E k \in 2..Len(Sources), id \in 0..(ReaderCommands - 1) :
          /\ <<Sources[k - 1], id>> \in commands.published
          /\ <<Sources[k], id>> \notin commands.published
          /\ commands' = [commands EXCEPT
                            !.published = @ \cup {<<Sources[k], id>>}]
    /\ UNCHANGED <<cmdRest, shouldRun>>

\* exitGracefullyOnSignal while the reader runs.
commandSignal ==
    /\ commands.pc # "none"
    /\ shouldRun
    /\ shouldRun' = FALSE
    /\ commands' = [commands EXCEPT !.outOfCommands_ = TRUE]
    /\ UNCHANGED cmdRest

InitCommands ==
    /\ Quiet
    /\ NoDrivers
    /\ NoAcks
    /\ NoPublisher
    /\ NoBarrier
    /\ NoBrocas
    /\ NoServer
    /\ shout = [pc |-> "none"]
    /\ commands = RunningCommands

NextCommands ==
    \/ nextCommand
    \/ dispatchCommand
    \/ jobRun
    \/ acknowledgeCommand
    \/ commandSignal

SpecCommands == InitCommands /\ [][NextCommands]_vars

\* The commands acknowledged by some source.
Acknowledged == {e[2] : e \in commands.published}

\* The commands read whose cmd is no decoder's name (and not quit), or of
\* whose param the decoder makes no job.
Undispatchable ==
    {k - 1 : k \in {j \in 1..Len(commands.log) :
                       \/ commands.log[j].cmd \notin cmd_ \cup {"quit"}
                       \/ commands.log[j].cmd \in cmd_
                             /\ ~commands.log[j].param}}

\* The reader has left its loop although the last command it read is not
\* quit and no signal has come.
LeftEarly ==
    /\ commands.pc = "done"
    /\ shouldRun
    /\ commands.log # <<>>
    /\ commands.log[Len(commands.log)].cmd # "quit"

\* C32: a command whose cmd is not a registered decoder name, or of which
\* the decoder makes no job, is discarded: no job is enqueued for it, no
\* acknowledgement of any source is ever published for it, and the reader
\* goes on to the following commands until quit (or a signal).
C32_DiscardedCommands ==
    /\ Undispatchable \cap commands.added = {}
    /\ Undispatchable \cap Acknowledged = {}
    /\ \A k \in 1..Len(commands.jobs_) :
          commands.jobs_[k] \notin Undispatchable
    /\ ~LeftEarly
    /\ (commands.pc = "nextCommand" /\ ~commands.outOfCommands_)
          => \A k \in 1..Len(commands.log) : commands.log[k].cmd # "quit"

\* Two commands were discarded, one of each kind (the reader has seen both
\* cmds), and the command read after them has been acknowledged by every
\* source.
C32_Witness ==
    /\ Undispatchable = {0, 1}
    /\ commands.log[1].cmd # commands.log[2].cmd
    /\ 2 \in commands.added
    /\ \A k \in 1..Len(Sources) : <<Sources[k], 2>> \in commands.published

\* ------------------------------------------------- ShoutBroca
\* ShoutBroca::runImpl, run by thread "r", reading the packets that the
\* encoder, thread "w", writes with writePacket.  Whether shout_open and
\* shoutTrySend succeed is up to the network.
shoutRest == <<drvVars, ackVars, pubVars, barVars, brVars, srvVars, commands>>

shoutPcm == <<pcmLeft_, songChanges_, songHead_, songTail_, pcmClosed_, skip_,
              mutex_, hasPcm_, nextMeta, shouldRun, metaLog, enc, jobVars,
              shoutRest>>

\* openTime = std::min(openTime * 2, 60L)
NextOpenTime_NoLimit(openTime) == openTime * 2
NextOpenTime(openTime) == Min(openTime * 2, MaxOpenTime)

\* runImpl at its first shout_open.  quitting and openTime are the locals;
\* left is the cursor's left_ before the readSome in progress.  Four fields
\* are history: fails counts the failed opens since the last that succeeded,
\* slept is the length in seconds of the last sleep since then (0: none),
\* sendFails counts the sends that failed, and interrupted tells that a send
\* failed with payload of the packet still unread and no header has been
\* read since.
RunningShout ==
    [pc |-> "open", quitting |-> FALSE, openTime |-> 1, left |-> 0,
     fails |-> 0, slept |-> 0, sendFails |-> 0, interrupted |-> FALSE]

\* The top of the outer loop down to the continue, or to openTime = 1.
shoutOpen ==
    /\ shout.pc = "open"
    /\ IF ~shouldRun
       THEN shout' = [shout EXCEPT !.pc = "done"]
       ELSE \/ /\ shout.fails < OpenFailures
               /\ shout' = [shout EXCEPT
                              !.slept = shout.openTime,
                              !.openTime = NextOpenTime(@),
                              !.fails = @ + 1]
            \/ shout' = [shout EXCEPT !.pc = "readPacket", !.openTime = 1,
                                      !.fails = 0, !.slept = 0]
    /\ UNCHANGED <<ringVars, pc, call, histVars, pcmVars, pktVars, jobVars,
                   shoutRest>>

\* The top of the inner loop: source_->readPacket() and the test of its
\* result.
shoutReadPacket(t) ==
    /\ t = "r"
    /\ \/ /\ shout.pc = "readPacket"
          /\ pc[t] = "idle"
          /\ IF ~shouldRun
             THEN /\ shout' = [shout EXCEPT !.pc = "reconnect"]
                  /\ UNCHANGED <<pc, call, outer>>
             ELSE /\ shout' = [shout EXCEPT !.pc = "header"]
                  /\ call' = [call EXCEPT ![t] = RingCall("readFull", HeaderSize)]
                  /\ outer' = [outer EXCEPT ![t] =
                                 [NoOuter EXCEPT !.op = "readPacket",
                                                 !.pos = 1]]
                  /\ Goto(t, "readFull")
          /\ UNCHANGED pktVars
       \/ /\ shout.pc = "header"
          /\ pc[t] = "ret"
          /\ outer[t].op = "readPacket"
          /\ HeaderRead(t)
          /\ Finish(t)
          /\ shout' = IF GotHeader(t)
                      THEN [shout EXCEPT !.pc = "packet",
                                         !.interrupted = FALSE]
                      ELSE [shout EXCEPT !.pc = "reconnect",
                                         !.quitting = TRUE]
          /\ UNCHANGED wr
    /\ UNCHANGED <<ringVars, histVars, shoutPcm>>

\* The packet just read: out-of-band metadata (the flag that packet.hh calls
\* OutOfBandMetadata) is read to its end by readPacketMetadata and the loop
\* continues; otherwise the loop over the payload, a readSome into buffer at
\* a time, then the sync and the next packet.
shoutPacket(t) ==
    /\ t = "r"
    /\ pc[t] = "idle"
    /\ \/ /\ shout.pc = "packet"
          /\ IF IsOutOfBand(cache.header.flags)
             THEN /\ shout' = [shout EXCEPT !.pc = "metadata"]
                  /\ outer' = [outer EXCEPT ![t] =
                                 [NoOuter EXCEPT !.op = "readFull",
                                                 !.size = cache.left]]
                  /\ Goto(t, "PacketRead")
             ELSE /\ shout' = [shout EXCEPT !.pc = "data"]
                  /\ UNCHANGED <<pc, outer>>
       \/ /\ shout.pc = "metadata"
          /\ shout' = [shout EXCEPT !.pc = "readPacket"]
          /\ UNCHANGED <<pc, outer>>
       \/ /\ shout.pc = "data"
          /\ IF cache.left > 0 /\ ~closed_ /\ shouldRun
             THEN /\ shout' = [shout EXCEPT !.pc = "send",
                                            !.left = cache.left]
                  /\ outer' = [outer EXCEPT ![t] =
                                 [NoOuter EXCEPT !.op = "readSome",
                                                 !.size = BrocaBuffer]]
                  /\ Goto(t, "PacketRead")
             ELSE /\ shout' = [shout EXCEPT !.pc = "readPacket"]
                  /\ UNCHANGED <<pc, outer>>
    /\ UNCHANGED <<ringVars, call, histVars, pktVars, shoutPcm>>

\* readSome has returned n bytes: none, and the loop goes on unless the
\* source is closed; some, and shoutTrySend sends them or fails.
shoutSend ==
    LET n == shout.left - cache.left IN
    /\ shout.pc = "send"
    /\ pc["r"] = "idle"
    /\ IF n = 0
       THEN shout' = IF closed_
                     THEN [shout EXCEPT !.pc = "reconnect", !.quitting = TRUE]
                     ELSE [shout EXCEPT !.pc = "data"]
       ELSE \/ shout' = [shout EXCEPT !.pc = "data"]
            \/ /\ shout.sendFails < SendFailures
               /\ shout' = [shout EXCEPT !.pc = "reconnect",
                                         !.sendFails = @ + 1,
                                         !.interrupted = cache.left > 0]
    /\ UNCHANGED <<ringVars, pc, call, histVars, pcmVars, pktVars, jobVars,
                   shoutRest>>

\* reconnect: shout_close(shout); if (quitting) break;
shoutReconnect ==
    /\ shout.pc = "reconnect"
    /\ shout' = [shout EXCEPT !.pc = IF shout.quitting THEN "done"
                                     ELSE "open"]
    /\ UNCHANGED <<ringVars, pc, call, histVars, pcmVars, pktVars, jobVars,
                   shoutRest>>

InitShout ==
    /\ size_ = PacketBufferSize
    /\ buffer_ = [i \in 0..PacketBufferSize |-> NoElem]
    /\ head_ = 0
    /\ tail_ = 0
    /\ closed_ = FALSE
    /\ waitToRead_ = {}
    /\ waitToWrite_ = {}
    /\ pc = [t \in Threads |-> "idle"]
    /\ call = [t \in Threads |-> NoCall]
    /\ nextVal = 0
    /\ pending = <<>>
    /\ workload = "packet"
    /\ InitPcmBuffer
    /\ skip_ = TRUE
    /\ outer = [t \in Threads |-> NoOuter]
    /\ nextMeta = 0
    /\ shouldRun = TRUE
    /\ NoPackets
    /\ NoJobs
    /\ NoDrivers
    /\ NoAcks
    /\ NoPublisher
    /\ NoBarrier
    /\ NoBrocas
    /\ NoServer
    /\ commands = [pc |-> "none"]
    /\ shout = RunningShout

\* The encoder and the broca while the server runs.
NextShout ==
    \/ shoutOpen
    \/ shoutSend
    \/ shoutReconnect
    \/ \E t \in Threads :
          \/ producer(t)
          \/ writePacket(t)
          \/ shoutReadPacket(t)
          \/ shoutPacket(t)
          \/ PacketRead(t)
          \/ PacketRingStep(t)

SpecShout == InitShout /\ [][NextShout]_vars

\* The delay after the k-th failed open in a row.
RECURSIVE Backoff(_)
Backoff(k) == IF k = 1 THEN 1 ELSE Min(2 * Backoff(k - 1), MaxOpenTime)

\* C35: the delay before the reconnect after a failed open starts at 1 s,
\* doubles after each further failed open in a row, never exceeds 60 s, and is
\* back at 1 s after an open that succeeded.
C35_ReconnectDelay ==
    /\ shout.fails > 0 => shout.slept = Backoff(shout.fails)
    /\ shout.openTime = Backoff(shout.fails + 1)
    /\ shout.openTime <= MaxOpenTime
    /\ shout.slept <= MaxOpenTime

\* An open succeeded, a send failed, and the opens since have failed often
\* enough for the delay, which started at 1 s again, to be held at its
\* limit.
C35_Witness ==
    /\ shout.sendFails > 0
    /\ shout.fails > 1
    /\ shout.slept = MaxOpenTime
    /\ 2 * Backoff(shout.fails - 1) > MaxOpenTime

\* readHeader has just returned a header whose bytes are, in order, the
\* header bytes of one packet that writePacket wrote.
WrittenHeader ==
    \A k \in 1..HeaderSize :
        taken[k].f = k /\ taken[k].pkt = taken[1].pkt

\* C37: after a send that failed in the middle of a packet and the
\* reconnect, the next readPacket returns a header that the encoder wrote:
\* the unread rest of the packet's payload is not taken for a header.
C37_HeaderAfterReconnect ==
    (/\ shout.pc = "header"
     /\ shout.interrupted
     /\ pc["r"] = "ret"
     /\ outer["r"].op = "readPacket"
     /\ GotHeader("r")) => WrittenHeader

====
